---- MODULE Spec2Model ----
(***************************************************************************)
(* Model of the WordPress import pipeline of the repository:               *)
(*   - the migration script (src/unnamed/part_000) and its older variant   *)
(*     (src/scripts/migrate-wordpress.ts),                                 *)
(*   - the featured-image repair script (src/scripts/fix-featured-images), *)
(*   - the content store's posts and categories mutations                  *)
(*     (src/convex/posts.ts).                                              *)
(* Strings are sequences of one-character strings.                         *)
(***************************************************************************)
EXTENDS Integers, Sequences, FiniteSets, TLC

(***************************************************************************)
(* Bounds of the model.                                                    *)
(***************************************************************************)
MaxLabelLen == 4
MaxDerive == 3

(***************************************************************************)
(* Characters of category labels.                                          *)
(***************************************************************************)
LabelChars == {"A", "a", "1", " ", "-"}

RECURSIVE StringsUpTo(_, _)
StringsUpTo(chars, n) ==
    IF n = 0 THEN {<<>>}
    ELSE LET shorter == StringsUpTo(chars, n - 1)
         IN  shorter \cup {Append(s, c) : s \in {t \in shorter : Len(t) = n - 1}, c \in chars}

Labels == StringsUpTo(LabelChars, MaxLabelLen)

(***************************************************************************)
(* Slug derivation of getOrCreateCategory:                                 *)
(*   categoryName.toLowerCase()                                            *)
(*               .replace(/[^a-z0-9]+/g, '-')                              *)
(*               .replace(/^-+|-+$/g, '')                                  *)
(***************************************************************************)
toLowerCaseChar(c) ==
    CASE c = "A" -> "a"
      [] c = "B" -> "b"
      [] c = "C" -> "c"
      [] c = "S" -> "s"
      [] OTHER -> c

toLowerCase(s) == [k \in 1..Len(s) |-> toLowerCaseChar(s[k])]

\* the character class [a-z0-9]
IsAlnum(c) == c \in {"a", "b", "c", "s", "1", "2"}

\* .replace(/[^a-z0-9]+/g, '-'): every maximal run of other characters
\* becomes one hyphen
RECURSIVE replaceNonAlnumRuns(_)
replaceNonAlnumRuns(s) ==
    IF s = <<>> THEN <<>>
    ELSE IF IsAlnum(Head(s)) THEN <<Head(s)>> \o replaceNonAlnumRuns(Tail(s))
    ELSE IF Len(s) > 1 /\ ~IsAlnum(s[2]) THEN replaceNonAlnumRuns(Tail(s))
    ELSE <<"-">> \o replaceNonAlnumRuns(Tail(s))

RECURSIVE stripLeadingHyphens(_)
stripLeadingHyphens(s) ==
    IF s # <<>> /\ Head(s) = "-" THEN stripLeadingHyphens(Tail(s)) ELSE s

RECURSIVE stripTrailingHyphens(_)
stripTrailingHyphens(s) ==
    IF s # <<>> /\ s[Len(s)] = "-"
    THEN stripTrailingHyphens(SubSeq(s, 1, Len(s) - 1))
    ELSE s

\* .replace(/^-+|-+$/g, '')
stripHyphens(s) == stripTrailingHyphens(stripLeadingHyphens(s))

\* a mutation of the chain: the two replace calls in the other order
deriveSlugStripFirst(categoryName) ==
    replaceNonAlnumRuns(stripHyphens(toLowerCase(categoryName)))

deriveSlug(categoryName) ==
    stripHyphens(replaceNonAlnumRuns(toLowerCase(categoryName)))


(***************************************************************************)
(* More bounds.                                                            *)
(***************************************************************************)
MaxItems == 3     \* items of the export file
MaxRuns == 2      \* invocations of the migration script
MaxFaults == 1    \* remote calls that fail for a reason outside the program
MaxAdminOps == 1  \* mutations issued by the administrator
MaxStoreOps == 5   \* mutations issued from the admin pages on the store alone
MaxToggles == 2    \* ThemeToggle components on the page
MaxEvents == 2     \* change events of the media query waiting to be dispatched
MaxInFlight == 2  \* remote calls that may be outstanding at once

(***************************************************************************)
(* Values.  undefined stands for a missing optional string, NoId for a     *)
(* missing id (null, undefined).                                           *)
(***************************************************************************)
undefined == <<"undefined">>
NoId == 0
null == [id |-> NoId]
NoItem == "null"            \* what localStorage.getItem returns for a missing key
NoEvent == [type |-> "none", detail |-> "none", to |-> {}]   \* no event is being dispatched

(***************************************************************************)
(* HTML is a sequence of tokens: "<" stands for the text `<img src="`,     *)
(* ">" for the closing `"` of the attribute, "h" for the prefix `http`,    *)
(* "(" for an opening parenthesis, every other token for itself.           *)
(***************************************************************************)
RECURSIVE urlRun(_)
\* ([^">]+): the longest prefix without a quote
urlRun(s) ==
    IF s = <<>> \/ Head(s) \in {"<", ">"} THEN <<>>
    ELSE <<Head(s)>> \o urlRun(Tail(s))

RECURSIVE extractImageUrls(_)
\* imgRegex = /<img[^>]+src="([^">]+)"/g, every match[1] in order
extractImageUrls(html) ==
    IF html = <<>> THEN <<>>
    ELSE IF Head(html) = "<"
         THEN LET u == urlRun(Tail(html))
                  after == SubSeq(html, Len(u) + 2, Len(html))
              IN  IF u # <<>> /\ after # <<>> /\ Head(after) = ">"
                  THEN <<u>> \o extractImageUrls(Tail(after))
                  ELSE extractImageUrls(Tail(html))
         ELSE extractImageUrls(Tail(html))

\* imageUrl.startsWith('http') (and imageUrl is not empty)
startsWithHttp(url) == url # <<>> /\ Head(url) = "h"

\* new RegExp(oldUrl, 'g') throws a SyntaxError on an unterminated group
RegExpThrows(pattern) == \E k \in 1..Len(pattern) : pattern[k] = "("

matchesAt(pattern, s, pos) ==
    /\ pos + Len(pattern) - 1 <= Len(s)
    /\ \A k \in 1..Len(pattern) : s[pos + k - 1] = pattern[k]

RECURSIVE replaceFrom(_, _, _, _)
\* String.prototype.replace with a global pattern: the matches are replaced
\* from left to right and do not overlap
replaceFrom(s, pos, pattern, replacement) ==
    IF pos > Len(s) THEN <<>>
    ELSE IF pattern # <<>> /\ matchesAt(pattern, s, pos)
         THEN replacement \o replaceFrom(s, pos + Len(pattern), pattern, replacement)
         ELSE <<s[pos]>> \o replaceFrom(s, pos + 1, pattern, replacement)

replaceAll(s, pattern, replacement) == replaceFrom(s, 1, pattern, replacement)

RECURSIVE replaceMapped(_, _)
\* for (const [oldUrl, newUrl] of Object.entries(imageMapping)) ...
\* mapping is the sequence of the entries in insertion order
replaceMapped(html, mapping) ==
    IF mapping = <<>> THEN html
    ELSE replaceMapped(replaceAll(html, Head(mapping)[1], Head(mapping)[2]),
                       Tail(mapping))

\* imageMapping[oldUrl] = newUrl: a new key is added last, a known key keeps
\* its place
setMapping(mapping, oldUrl, newUrl) ==
    IF \E k \in 1..Len(mapping) : mapping[k][1] = oldUrl
    THEN [k \in 1..Len(mapping) |->
            IF mapping[k][1] = oldUrl THEN <<oldUrl, newUrl>> ELSE mapping[k]]
    ELSE Append(mapping, <<oldUrl, newUrl>>)

occursIn(pattern, s) == \E pos \in 1..Len(s) : matchesAt(pattern, s, pos)

\* turndownService.turndown(html): an image element becomes ![](url)
turndown(html) ==
    [k \in 1..Len(html) |->
        CASE html[k] = "<" -> "![]("
          [] html[k] = ">" -> ")"
          [] OTHER -> html[k]]

\* getImageUrl(imageId, 'large'): the delivery URL of an uploaded image
IdDigits == <<"0", "1", "2", "3", "4", "5", "6", "7", "8", "9">>
RECURSIVE IdChars(_)
IdChars(n) == IF n < 10 THEN <<IdDigits[n + 1]>>
              ELSE IdChars(n \div 10) \o <<IdDigits[(n % 10) + 1]>>
getImageUrl(imageId) == <<"cdn/">> \o IdChars(imageId) \o <<"/large">>

(***************************************************************************)
(* The export file.                                                        *)
(***************************************************************************)
Url1 == <<"h", "a">>
Url2 == <<"h", "a", "b">>
UrlParen == <<"h", "(">>
UrlRelative == <<"a">>
img(url) == <<"<">> \o url \o <<">">>

CaseStudies == <<"C", " ", "S">>     \* a label such as "Case Studies"

Item(type, status, id, slug, content, categories, thumbnailId, attachmentUrl) ==
    [type |-> type, status |-> status, id |-> id, slug |-> slug,
     content |-> content, categories |-> categories,
     thumbnailId |-> thumbnailId, attachmentUrl |-> attachmentUrl]

ItemCatalog ==
    { Item("attachment", "inherit", 7, <<"i">>, <<>>, <<>>, 0, Url2),
      Item("post", "publish", 1, <<"p">>, <<"x">> \o img(Url1) \o img(Url1),
           <<CaseStudies>>, 7, undefined),
      Item("post", "publish", 2, <<"q">>, img(UrlRelative) \o img(UrlParen),
           <<CaseStudies, <<"a">>>>, 0, undefined),
      Item("post", "draft", 3, <<"p">>, img(Url1) \o img(Url2), <<>>, 7, undefined) }

RECURSIVE SeqsOfLen(_, _)
\* the sequences of n different elements of S
SeqsOfLen(S, n) ==
    IF n = 0 THEN {<<>>}
    ELSE {Append(s, x) : s \in SeqsOfLen(S, n - 1), x \in S} \ 
         {s \in {Append(t, x) : t \in SeqsOfLen(S, n - 1), x \in S} :
             \E a, b \in 1..n : a # b /\ s[a] = s[b]}

Exports == SeqsOfLen(ItemCatalog, MaxItems)

MetaObject == <<"[object Object]">>   \* a postmeta element used as a URL

\* const attachments: Record<string, string>, read at attachments[id]
attachmentUrlOf(its, id) ==
    LET found == {k \in 1..Len(its) : /\ its[k].type = "attachment"
                                      /\ its[k].id # NoId
                                      /\ its[k].attachmentUrl # undefined
                                      /\ its[k].id = id}
    IN  IF found = {} THEN undefined
        ELSE its[CHOOSE k \in found : \A m \in found : m <= k].attachmentUrl

WordPressPost(src, slug, content, categories, status, featuredImageUrl) ==
    [src |-> src, slug |-> slug, content |-> content, categories |-> categories,
     status |-> status, featuredImageUrl |-> featuredImageUrl]

\* posts.push for the iterations that reach it, in order: picks holds the
\* post of each iteration, or null for an iteration that continues
pushAll(picks) ==
    LET pushed[n \in 0..Len(picks)] ==
            IF n = 0 THEN <<>>
            ELSE IF picks[n] = null THEN pushed[n - 1]
            ELSE Append(pushed[n - 1], picks[n])
    IN  pushed[Len(picks)]

\* one iteration of the second pass of parseWordPressXML
parsePost(its, k) ==
    IF its[k].type # "post" THEN null
    ELSE IF its[k].status # "publish" THEN null
    ELSE WordPressPost(k, its[k].slug, its[k].content, its[k].categories, "publish",
                       IF its[k].thumbnailId # NoId
                       THEN attachmentUrlOf(its, its[k].thumbnailId)
                       ELSE undefined)

parseWordPressXML(its) == pushAll([k \in 1..Len(its) |-> parsePost(its, k)])

\* one iteration of the loop of the older parseWordPressXML
parsePostLegacy(its, k) ==
    IF its[k].type # "post" THEN null
    ELSE IF its[k].status = "trash" THEN null
    ELSE WordPressPost(k, its[k].slug, its[k].content, its[k].categories,
                       IF its[k].status = "publish" THEN "publish" ELSE "draft",
                       IF its[k].thumbnailId # NoId THEN MetaObject ELSE undefined)

parseWordPressXMLLegacy(its) ==
    pushAll([k \in 1..Len(its) |-> parsePostLegacy(its, k)])

VARIABLES
    \* the content store and the image store
    posts,        \* the posts table: a set of records
    categories,   \* the categories table: a set of records
    nextId,       \* the next document id
    now,          \* Date.now(), advanced by every mutation
    images,       \* the number of images uploaded to the image store
    \* the input of the migration script
    items,        \* the items of the export file
    script,       \* "migrate" (part_000) or "legacy" (scripts/migrate-wordpress.ts)
    \* the running script
    run,          \* the number of invocations so far
    isDryRun,     \* --dry-run
    pc,           \* where the script is
    wpPosts,      \* the parsed posts
    i,            \* the loop index of importPosts (from 1)
    counts,       \* successCount, skipCount, failCount, imageFailCount
    loc,          \* the locals of the current iteration
    \* what has been observed of the run
    ops,          \* per post, the remote calls issued for it, in order
    outcome,      \* per post, how its iteration ended
    errors,       \* the failures reported, one entry per report
    baseline,     \* the posts table when the run started
    prev,         \* the summary of the previous run
    faults,       \* the remote calls that have failed so far
    catLog,       \* every call of getOrCreateCategory so far, over all runs
    \* the administrator's use of the posts mutations
    adminOps,     \* the mutations issued so far
    \* the featured-image script
    isForce,      \* --force
    featuredImages, \* slug -> image URL, from the export
    convexPosts,  \* the posts fetched from the store
    stats,        \* total, success, skipped, failed, errors
    \* the slug derivation alone
    deriveIn,     \* the label handed to the slug derivation
    deriveOut,    \* the successive derivations: deriveOut[1] = slug(label), ...
    \* the command line and the files of an invocation
    hasPath,      \* the path of the export is given
    file,         \* the export file: "missing", "malformed" or "ok"
    stdin,        \* "none", or "data" once the operator has pressed Enter
    \* the parser, item by item
    attachments,  \* the index attachment id -> URL
    \* the remote calls
    stepwise,     \* a remote call takes two steps: it is issued, it returns
    inFlight,     \* the remote calls issued that have not returned
    issued,       \* the number of remote calls issued (counted when stepwise)
    uploadLog,    \* the uploadImageFromUrl calls of the run: URL and id returned
    \* the page: the ThemeToggle components, the browser
    theme,        \* per component, its state theme
    mounted,      \* per component, its state mounted
    storedTheme,  \* localStorage.getItem('theme')
    systemTheme,  \* what matchMedia('(prefers-color-scheme: dark)') matches
    darkClass,    \* document.documentElement.classList.contains('dark')
    changeEvents, \* the change events of the media query not yet dispatched
    dispatch      \* the event being dispatched, and the listeners still to run

storeVars == <<posts, categories, nextId, now, images>>
inputVars == <<items, script>>
runVars == <<run, isDryRun, pc, wpPosts, i, counts, loc>>
seenVars == <<ops, outcome, errors, baseline, prev, faults, catLog>>
slugVars == <<deriveIn, deriveOut>>
adminVars == <<adminOps>>
fixVars == <<isForce, featuredImages, convexPosts, stats>>
otherVars == <<slugVars, adminVars, fixVars>>
cliVars == <<hasPath, file, stdin>>
parseVars == <<attachments>>
themeVars == <<theme, mounted, storedTheme, systemTheme, darkClass, changeEvents, dispatch>>
\* what a step that issues no remote call leaves alone
quietVars == <<cliVars, parseVars, stepwise, inFlight, issued, uploadLog, themeVars>>
\* what a step that ends a remote call other than an upload leaves alone
calmVars == <<cliVars, parseVars, stepwise, issued, uploadLog, themeVars>>
vars == <<storeVars, inputVars, runVars, seenVars, slugVars, adminVars, fixVars,
          cliVars, parseVars, stepwise, inFlight, issued, uploadLog, themeVars>>

NoLoc ==
    [imageUrls |-> <<>>, k |-> 1, imageMapping |-> <<>>, imagesFailed |-> 0,
     failedUrls |-> {}, updatedHtml |-> <<>>, content |-> <<>>,
     categoryId |-> NoId, featuredImage |-> undefined, featuredImageFailed |-> FALSE]

NoCounts == [success |-> 0, skip |-> 0, fail |-> 0, imageFail |-> 0]
NoPrev == [state |-> "none", isDryRun |-> FALSE, outcome |-> <<>>, posts |-> {}]

IdleScript ==
    /\ run = 0 /\ pc = "idle" /\ wpPosts = <<>> /\ i = 1
    /\ counts = NoCounts /\ loc = NoLoc
    /\ ops = <<>> /\ outcome = <<>> /\ errors = <<>> /\ baseline = {}
    /\ prev = NoPrev /\ catLog = <<>>

IdleRun == IdleScript /\ isDryRun = FALSE /\ faults = 0

EmptyStore ==
    /\ posts = {} /\ categories = {} /\ nextId = 1 /\ now = 1 /\ images = 0

NoSlugRun == deriveIn = <<>> /\ deriveOut = <<>>

NoStats == [total |-> 0, success |-> 0, skipped |-> 0, failed |-> 0, errors |-> <<>>]

NoAdmin == adminOps = 0

NoFixRun ==
    isForce = FALSE /\ featuredImages = {} /\ convexPosts = <<>> /\ stats = NoStats

\* the export is given and can be read, the operator is not asked
NoCli == hasPath = TRUE /\ file = "ok" /\ stdin = "none"

NoParse == attachments = {}

\* no remote call is outstanding, none is logged
NoCalls == inFlight = <<>> /\ issued = 0 /\ uploadLog = <<>>

\* no page is open
NoPage ==
    /\ theme = <<>> /\ mounted = <<>> /\ storedTheme = NoItem /\ systemTheme = "light"
    /\ darkClass = FALSE /\ changeEvents = <<>> /\ dispatch = NoEvent

\* a remote call and its return are one step
Atomic == stepwise = FALSE /\ NoCli /\ NoParse /\ NoCalls /\ NoPage

(***************************************************************************)
(* The content store (src/convex/posts.ts).  A mutation handler runs as    *)
(* one transaction.                                                        *)
(***************************************************************************)
\* .first() of an index range: the oldest matching document, or null
first(docs) ==
    IF docs = {} THEN null ELSE CHOOSE d \in docs : \A e \in docs : d.id <= e.id

\* a mutation of posts.getBySlug: the index finds no document
posts_getBySlugNull(slug) == null

\* posts.getBySlug
posts_getBySlug(slug) == first({p \in posts : p.slug = slug})

\* a mutation of posts.create: the uniqueness check is left out
posts_create_throwsNever(args) == FALSE

\* posts.create: "if (existingPost) throw"
posts_create_throws(args) == posts_getBySlug(args.slug) # null

\* posts.create: the document inserted
posts_create_doc(args) ==
    [id |-> nextId, slug |-> args.slug, content |-> args.content,
     featuredImage |-> args.featuredImage, categoryId |-> args.categoryId,
     status |-> args.status,
     publishedAt |-> IF args.status = "published" THEN now ELSE NoId,
     modifiedAt |-> now]

\* posts.create, when it does not throw
posts_create(args) ==
    /\ posts' = posts \cup {posts_create_doc(args)}
    /\ nextId' = nextId + 1
    /\ now' = now + 1

\* a mutation of categories.getBySlug: the index finds no document
categories_getBySlugNull(slug) == null

\* categories.getBySlug
categories_getBySlug(slug) == first({c \in categories : c.slug = slug})

\* a mutation of categories.create: the slug is never found taken
categories_create_throwsNever(args) == FALSE

\* categories.create: "if (existingCategory) throw"
categories_create_throws(args) == categories_getBySlug(args.slug) # null

\* categories.create, when it does not throw
categories_create(args) ==
    /\ categories' = categories \cup {[id |-> nextId, name |-> args.name, slug |-> args.slug]}
    /\ nextId' = nextId + 1
    /\ now' = now + 1

\* deleteCategory: "Category not found", or posts are using the category
categories_deleteCategory_throws(id) ==
    \/ \A c \in categories : c.id # id
    \/ {p \in posts : p.categoryId = id} # {}

\* deleteCategory, when it does not throw
categories_deleteCategory(id) ==
    /\ categories' = {c \in categories : c.id # id}
    /\ UNCHANGED <<nextId, now>>

\* posts.update: "Post not found", or the new slug is another post's
posts_update_throws(args) ==
    \/ \A p \in posts : p.id # args.id
    \/ LET existingPost == CHOOSE p \in posts : p.id = args.id
       IN  args.slug # existingPost.slug /\ posts_getBySlug(args.slug) # null

\* a mutation of posts.update: publishedAt is stamped whenever the status
\* given is published
posts_updateStamps(args) ==
    LET existingPost == CHOOSE p \in posts : p.id = args.id
        publishedAt == IF args.status = "published" THEN now ELSE existingPost.publishedAt
    IN  /\ posts' = (posts \ {existingPost}) \cup
                    {[id |-> args.id, slug |-> args.slug, content |-> args.content,
                      featuredImage |-> args.featuredImage, categoryId |-> args.categoryId,
                      status |-> args.status, publishedAt |-> publishedAt,
                      modifiedAt |-> now]}
        /\ now' = now + 1
        /\ UNCHANGED nextId

\* posts.update, when it does not throw
posts_update(args) ==
    LET existingPost == CHOOSE p \in posts : p.id = args.id
        publishedAt == IF args.status = "published" /\ existingPost.publishedAt = NoId
                       THEN now ELSE existingPost.publishedAt
    IN  /\ posts' = (posts \ {existingPost}) \cup
                    {[id |-> args.id, slug |-> args.slug, content |-> args.content,
                      featuredImage |-> args.featuredImage, categoryId |-> args.categoryId,
                      status |-> args.status, publishedAt |-> publishedAt,
                      modifiedAt |-> now]}
        /\ now' = now + 1
        /\ UNCHANGED nextId

\* posts.deletePost, for an existing post
posts_deletePost(id) ==
    /\ posts' = {p \in posts : p.id # id}
    /\ now' = now + 1
    /\ UNCHANGED nextId

\* a mutation of posts.publish: the status alone is patched
posts_publishStatusOnly(id) ==
    LET post == CHOOSE p \in posts : p.id = id
    IN  /\ posts' = (posts \ {post}) \cup
                    {[post EXCEPT !.status = "published", !.modifiedAt = now]}
        /\ now' = now + 1
        /\ UNCHANGED nextId

\* posts.publish, for an existing post
posts_publish(id) ==
    LET post == CHOOSE p \in posts : p.id = id
    IN  /\ posts' = (posts \ {post}) \cup
                    {[post EXCEPT !.status = "published",
                                  !.publishedAt = IF post.publishedAt # NoId
                                                  THEN post.publishedAt ELSE now,
                                  !.modifiedAt = now]}
        /\ now' = now + 1
        /\ UNCHANGED nextId

\* posts.updateFeaturedImage, for an existing post
posts_updateFeaturedImage(id, featuredImage) ==
    LET post == CHOOSE p \in posts : p.id = id
    IN  /\ posts' = (posts \ {post}) \cup
                    {[post EXCEPT !.featuredImage = featuredImage, !.modifiedAt = now]}
        /\ now' = now + 1
        /\ UNCHANGED nextId

(***************************************************************************)
(* The administrator (the admin pages) issues posts mutations while the    *)
(* script runs.  A mutation that throws changes nothing.                   *)
(***************************************************************************)
AdminSlugs == {<<"p">>, <<"q">>}
AdminStatuses == {"draft", "published"}

AdminStep ==
    /\ adminOps < MaxAdminOps
    /\ adminOps' = adminOps + 1
    /\ UNCHANGED <<categories, images, inputVars, runVars, seenVars, slugVars, fixVars>>
    /\ UNCHANGED quietVars

admin_create ==
    /\ \E slug \in AdminSlugs, status \in AdminStatuses :
          LET args == [slug |-> slug, content |-> <<"x">>, featuredImage |-> undefined,
                       categoryId |-> NoId, status |-> status]
          IN  /\ ~posts_create_throws(args)
              /\ posts_create(args)
    /\ AdminStep

admin_update ==
    /\ \E post \in posts, slug \in AdminSlugs, status \in AdminStatuses :
          LET args == [id |-> post.id, slug |-> slug, content |-> post.content,
                       featuredImage |-> post.featuredImage,
                       categoryId |-> post.categoryId, status |-> status]
          IN  /\ ~posts_update_throws(args)
              /\ posts_update(args)
    /\ AdminStep

admin_deletePost ==
    /\ \E post \in posts : posts_deletePost(post.id)
    /\ AdminStep

admin_publish ==
    /\ \E post \in posts : posts_publish(post.id)
    /\ AdminStep

admin_updateFeaturedImage ==
    /\ \E post \in posts : posts_updateFeaturedImage(post.id, Url1)
    /\ AdminStep

(***************************************************************************)
(* The migration script.                                                   *)
(***************************************************************************)
nullUrl == <<"null">>       \* the null returned by migrateImage

truthy(str) == str # undefined /\ str # <<>>

StartLoc(post) == [NoLoc EXCEPT !.imageUrls = extractImageUrls(post.content)]

\* the remote call op is issued for the current post
Call(op) == ops' = [ops EXCEPT ![i] = Append(@, op)]

\* a remote call fails for a reason outside the program
Fault == faults < MaxFaults /\ faults' = faults + 1

\* a mutation of await: the script runs on while a call is outstanding
suspendedNever(calls) == FALSE

\* await: the script does not run while the calls it issued are outstanding
suspended(calls) == calls # <<>>

\* the awaited remote call op returns or throws
Awaited(op) ==
    IF stepwise
    THEN inFlight # <<>> /\ inFlight[1] = op /\ inFlight' = Tail(inFlight)
    ELSE UNCHANGED inFlight

\* uploadImageFromUrl(url, ...) is called for the post slug and returns the
\* image id (NoId when it fails)
Uploaded(slug, use, url, id) ==
    uploadLog' = Append(uploadLog, [slug |-> slug, use |-> use, url |-> url, id |-> id])

\* the loop of importPosts reaches iteration j of the posts ps
Enter(ps, j) ==
    IF j > Len(ps) THEN pc' = "done" /\ loc' = NoLoc
    ELSE IF script = "migrate" THEN pc' = "getBySlug" /\ loc' = NoLoc
    ELSE pc' = "migrateInline" /\ loc' = StartLoc(ps[j])

\* a mutation of the end of an iteration: no counter is incremented
FinishUncounted(how, counter) ==
    /\ UNCHANGED counts
    /\ outcome' = [outcome EXCEPT ![i] = how]
    /\ i' = i + 1
    /\ Enter(wpPosts, i + 1)

\* the current iteration ends: one counter is incremented
Finish(how, counter) ==
    /\ counts' = [counts EXCEPT ![counter] = @ + 1]
    /\ outcome' = [outcome EXCEPT ![i] = how]
    /\ i' = i + 1
    /\ Enter(wpPosts, i + 1)

\* catch (error) { console.error(`Failed to import: ${error}`); failCount++ }
Fail(error) ==
    /\ Finish("failed", "fail")
    /\ errors' = Append(errors, [error |-> error])

\* main: parseWordPressXML, then importPosts up to its loop
main ==
    /\ pc \in {"idle", "done", "killed"}
    /\ run < MaxRuns
    /\ run' = run + 1
    /\ isDryRun' \in (IF script = "migrate" THEN BOOLEAN ELSE {FALSE})
    /\ wpPosts' = (IF script = "migrate" THEN parseWordPressXML(items)
                   ELSE parseWordPressXMLLegacy(items))
    /\ i' = 1
    /\ counts' = NoCounts
    /\ Enter(wpPosts', 1)
    /\ ops' = [j \in 1..Len(wpPosts') |-> <<>>]
    /\ outcome' = [j \in 1..Len(wpPosts') |-> "none"]
    /\ errors' = <<>>
    /\ baseline' = posts
    /\ prev' = [state |-> pc, isDryRun |-> isDryRun, outcome |-> outcome, posts |-> baseline]
    /\ uploadLog' = <<>>
    /\ UNCHANGED <<storeVars, inputVars, faults, catLog, otherVars>>
    /\ UNCHANGED <<cliVars, parseVars, stepwise, inFlight, issued, themeVars>>

\* a mutation of the test: the existing post is not noticed
alreadyExistsNever(existingPost) == FALSE

\* importPosts: if (existingPost)
alreadyExists(existingPost) == existingPost # null

\* a mutation of the dry-run test: the script never takes the dry-run branch
dryRunBranchNever == FALSE

\* if (isDryRun): the script takes the dry-run branch of the current post
dryRunBranch == isDryRun

\* importPosts: the existence check and the dry-run branch
importPosts_getBySlug ==
    /\ pc = "getBySlug"
    /\ Call("posts.getBySlug")
    /\ Awaited("posts.getBySlug")
    /\ UNCHANGED calmVars
    /\ \/ /\ Fault
          /\ Fail("posts.getBySlug failed")
       \/ /\ alreadyExists(posts_getBySlug(wpPosts[i].slug))
          /\ Finish("skipped", "skip")
          /\ UNCHANGED <<errors, faults>>
       \/ /\ ~alreadyExists(posts_getBySlug(wpPosts[i].slug))
          /\ dryRunBranch
          /\ Finish("dry", "success")
          /\ UNCHANGED <<errors, faults>>
       \/ /\ ~alreadyExists(posts_getBySlug(wpPosts[i].slug))
          /\ ~dryRunBranch
          /\ pc' = "migrateInline"
          /\ loc' = StartLoc(wpPosts[i])
          /\ UNCHANGED <<i, counts, outcome, errors, faults>>
    /\ UNCHANGED <<storeVars, inputVars, run, isDryRun, wpPosts, baseline, prev, catLog, otherVars>>

\* migrateImage(imageUrl, alt) returning newUrl
migrateImage(imageUrl, use, newUrl) ==
    /\ UNCHANGED <<cliVars, parseVars, stepwise, issued, themeVars>>
    /\ \/ /\ script = "migrate"
          /\ ~startsWithHttp(imageUrl)
          /\ newUrl = nullUrl
          /\ UNCHANGED <<images, ops, faults, inFlight, uploadLog>>
       \/ /\ startsWithHttp(imageUrl)
          /\ Call("uploadImageFromUrl")
          /\ Awaited("uploadImageFromUrl")
          /\ Uploaded(wpPosts[i].slug, use, imageUrl, images + 1)
          /\ images' = images + 1
          /\ newUrl = getImageUrl(images + 1)
          /\ UNCHANGED faults
       \/ /\ script = "legacy" \/ startsWithHttp(imageUrl)
          /\ Call("uploadImageFromUrl")
          /\ Awaited("uploadImageFromUrl")
          /\ Uploaded(wpPosts[i].slug, use, imageUrl, NoId)
          /\ IF startsWithHttp(imageUrl) THEN Fault ELSE UNCHANGED faults
          /\ newUrl = nullUrl
          /\ UNCHANGED images

\* convertContentToMarkdown: one iteration of the loop over imageUrls
convertContentToMarkdown_migrate ==
    /\ pc = "migrateInline"
    /\ loc.k <= Len(loc.imageUrls)
    /\ LET oldUrl == loc.imageUrls[loc.k]
       IN  \E newUrl \in {nullUrl, getImageUrl(images + 1)} :
              /\ migrateImage(oldUrl, "inline", newUrl)
              /\ loc' = IF newUrl # nullUrl
                        THEN [loc EXCEPT !.k = @ + 1,
                                         !.imageMapping = setMapping(@, oldUrl, newUrl)]
                        ELSE [loc EXCEPT !.k = @ + 1,
                                         !.imagesFailed = IF script = "migrate" THEN @ + 1 ELSE @,
                                         !.failedUrls = @ \cup {oldUrl}]
    /\ UNCHANGED <<posts, categories, nextId, now, inputVars, run, isDryRun, pc, wpPosts,
                   i, counts, outcome, errors, baseline, prev, catLog, otherVars>>

\* where importPosts goes after the category is resolved
AfterCategory(post) == IF truthy(post.featuredImageUrl) THEN "featured" ELSE "create"

\* where importPosts goes after the content is converted
AfterConvert(post) ==
    IF Len(post.categories) > 0 /\ post.categories[1] # <<>>
    THEN "categoryLookup" ELSE AfterCategory(post)

\* convertContentToMarkdown: the substitution and the conversion
convertContentToMarkdown_replace ==
    /\ pc = "migrateInline"
    /\ loc.k > Len(loc.imageUrls)
    /\ IF \E e \in 1..Len(loc.imageMapping) : RegExpThrows(loc.imageMapping[e][1])
       THEN /\ Fail("Invalid regular expression")
       ELSE /\ LET updatedHtml == replaceMapped(wpPosts[i].content, loc.imageMapping)
               IN  loc' = [loc EXCEPT !.updatedHtml = updatedHtml,
                                      !.content = turndown(updatedHtml)]
            /\ pc' = AfterConvert(wpPosts[i])
            /\ UNCHANGED <<i, counts, outcome, errors>>
    /\ UNCHANGED <<storeVars, inputVars, run, isDryRun, wpPosts, ops, baseline, prev,
                   faults, catLog, otherVars>>
    /\ UNCHANGED quietVars

\* a call of getOrCreateCategory for slug ends: it issued categories.create
\* or not, and it returns the id (NoId when it throws)
Returned(slug, created, id) ==
    catLog' = Append(catLog, [slug |-> slug, created |-> created, id |-> id])

\* getOrCreateCategory: the slug and the lookup
getOrCreateCategory_getBySlug ==
    /\ pc = "categoryLookup"
    /\ Call("categories.getBySlug")
    /\ Awaited("categories.getBySlug")
    /\ UNCHANGED calmVars
    /\ LET slug == deriveSlug(wpPosts[i].categories[1])
           existingCategory == categories_getBySlug(slug)
       IN  \/ /\ Fault
              /\ Fail("categories.getBySlug failed")
              /\ Returned(slug, FALSE, NoId)
           \/ /\ IF existingCategory # null
                 THEN /\ loc' = [loc EXCEPT !.categoryId = existingCategory.id]
                      /\ pc' = AfterCategory(wpPosts[i])
                      /\ Returned(slug, FALSE, existingCategory.id)
                 ELSE /\ pc' = "categoryCreate"
                      /\ loc' = loc
                      /\ UNCHANGED catLog
              /\ UNCHANGED <<i, counts, outcome, errors, faults>>
    /\ UNCHANGED <<storeVars, inputVars, run, isDryRun, wpPosts, baseline, prev, otherVars>>

\* getOrCreateCategory: the create mutation
getOrCreateCategory_create ==
    /\ pc = "categoryCreate"
    /\ Call("categories.create")
    /\ Awaited("categories.create")
    /\ UNCHANGED calmVars
    /\ LET args == [name |-> wpPosts[i].categories[1],
                    slug |-> deriveSlug(wpPosts[i].categories[1])]
       IN  \/ /\ Fault
              /\ Fail("categories.create failed")
              /\ Returned(args.slug, TRUE, NoId)
              /\ UNCHANGED <<categories, nextId, now>>
           \/ /\ IF categories_create_throws(args)
                 THEN /\ Fail("Category already exists")
                      /\ Returned(args.slug, TRUE, NoId)
                      /\ UNCHANGED <<categories, nextId, now>>
                 ELSE /\ categories_create(args)
                      /\ loc' = [loc EXCEPT !.categoryId = nextId]
                      /\ pc' = AfterCategory(wpPosts[i])
                      /\ Returned(args.slug, TRUE, nextId)
                      /\ UNCHANGED <<i, counts, outcome, errors>>
              /\ UNCHANGED faults
    /\ UNCHANGED <<posts, images, inputVars, run, isDryRun, wpPosts, baseline, prev, otherVars>>

\* importPosts: the featured image
importPosts_featuredImage ==
    /\ pc = "featured"
    /\ \E migratedImage \in {nullUrl, getImageUrl(images + 1)} :
          /\ migrateImage(wpPosts[i].featuredImageUrl, "featured", migratedImage)
          /\ loc' = IF migratedImage # nullUrl
                    THEN [loc EXCEPT !.featuredImage = migratedImage]
                    ELSE [loc EXCEPT !.featuredImageFailed = script = "migrate"]
    /\ pc' = "create"
    /\ UNCHANGED <<posts, categories, nextId, now, inputVars, run, isDryRun, wpPosts,
                   i, counts, outcome, errors, baseline, prev, catLog, otherVars>>

\* the arguments of the posts.create call of importPosts
createArgs(post) ==
    [slug |-> post.slug, content |-> loc.content, featuredImage |-> loc.featuredImage,
     categoryId |-> loc.categoryId,
     status |-> IF script = "migrate" \/ post.status = "publish"
                THEN "published" ELSE "draft"]

\* importPosts: the create mutation and the counters
importPosts_create ==
    /\ pc = "create"
    /\ Call("posts.create")
    /\ Awaited("posts.create")
    /\ UNCHANGED calmVars
    /\ \/ /\ Fault
          /\ Fail("posts.create failed")
          /\ UNCHANGED <<posts, nextId, now>>
       \/ /\ IF posts_create_throws(createArgs(wpPosts[i]))
             THEN /\ Fail("Post already exists")
                  /\ UNCHANGED <<posts, nextId, now>>
             ELSE /\ posts_create(createArgs(wpPosts[i]))
                  /\ outcome' = [outcome EXCEPT ![i] = "created"]
                  /\ counts' = [counts EXCEPT
                         !.success = @ + 1,
                         !.imageFail = IF loc.featuredImageFailed \/ loc.imagesFailed > 0
                                       THEN @ + 1 ELSE @]
                  /\ i' = i + 1
                  /\ Enter(wpPosts, i + 1)
                  /\ UNCHANGED errors
          /\ UNCHANGED faults
    /\ UNCHANGED <<categories, images, inputVars, run, isDryRun, wpPosts, baseline, prev,
                   catLog, otherVars>>

\* the process is killed between two remote calls
Kill ==
    /\ pc \notin {"idle", "done", "killed"}
    /\ run < MaxRuns          \* a kill that no run follows ends the model
    /\ pc' = "killed"
    /\ UNCHANGED <<storeVars, inputVars, run, isDryRun, wpPosts, i, counts, loc,
                   seenVars, otherVars>>
    /\ UNCHANGED quietVars

Init ==
    /\ EmptyStore /\ IdleRun /\ NoSlugRun /\ NoAdmin /\ NoFixRun /\ Atomic
    /\ items \in Exports
    /\ script \in {"migrate", "legacy"}

Next ==
    \/ main
    \/ importPosts_getBySlug
    \/ convertContentToMarkdown_migrate
    \/ convertContentToMarkdown_replace
    \/ getOrCreateCategory_getBySlug
    \/ getOrCreateCategory_create
    \/ importPosts_featuredImage
    \/ importPosts_create
    \/ Kill

Spec == Init /\ [][Next]_vars

(***************************************************************************)
(* The script and the administrator together.                              *)
(***************************************************************************)
NextStore ==
    \/ Next
    \/ admin_create
    \/ admin_update
    \/ admin_deletePost
    \/ admin_publish
    \/ admin_updateFeaturedImage

\* the exports that start with the attachment, followed by two posts
StoreExportLen == 3
StoreExports == {e \in SeqsOfLen(ItemCatalog, StoreExportLen) : e[1].type = "attachment"}

\* a draft the administrator wrote before the migration
OlderPost ==
    [id |-> 1, slug |-> <<"q">>, content |-> <<"x">>, featuredImage |-> undefined,
     categoryId |-> NoId, status |-> "draft", publishedAt |-> NoId, modifiedAt |-> 1]

\* the store holds the older draft, and the administrator is the only
\* disturbance: no remote call of the script fails for a reason outside the
\* program
InitStore ==
    /\ posts = {OlderPost}
    /\ categories = {} /\ nextId = 2 /\ now = 2 /\ images = 0
    /\ NoSlugRun /\ NoAdmin /\ NoFixRun /\ Atomic
    /\ IdleScript /\ isDryRun = FALSE /\ faults = MaxFaults
    /\ items \in StoreExports
    /\ script = "migrate"

SpecStore == InitStore /\ [][NextStore]_vars

(***************************************************************************)
(* The featured-image script (src/scripts/fix-featured-images.ts).         *)
(***************************************************************************)
RETRY_ATTEMPTS == 3
RETRY_DELAY_MS == 2000
RATE_LIMIT_DELAY_MS == 500

\* featuredImages.set(slug, imageUrl)
mapSet(map, key, value) == {e \in map : e[1] # key} \cup {<<key, value>>}

\* featuredImages.get(slug)
mapGet(map, key) ==
    IF \E e \in map : e[1] = key THEN (CHOOSE e \in map : e[1] = key)[2] ELSE undefined

\* parseWordPressXML of the featured-image script: slug -> image URL
parseFeaturedImages(its) ==
    LET built[n \in 0..Len(its)] ==
            IF n = 0 THEN {}
            ELSE IF /\ its[n].type = "post"
                    /\ its[n].slug # <<>>
                    /\ its[n].thumbnailId # NoId
                    /\ truthy(attachmentUrlOf(its, its[n].thumbnailId))
                 THEN mapSet(built[n - 1], its[n].slug,
                             attachmentUrlOf(its, its[n].thumbnailId))
                 ELSE built[n - 1]
    IN  built[Len(its)]

RECURSIVE posts_list(_)
\* posts.list: the posts, most recently modified first
posts_list(docs) ==
    IF docs = {} THEN <<>>
    ELSE LET latest == CHOOSE d \in docs :
                          \A e \in docs : \/ e.modifiedAt < d.modifiedAt
                                          \/ e.modifiedAt = d.modifiedAt /\ d.id <= e.id
         IN  <<latest>> \o posts_list(docs \ {latest})

FixLoc == [attemptNum |-> 1, cloudflareUrl |-> nullUrl, slept |-> 0]

\* main reaches iteration j of its loop over the fetched posts ps
FixEnter(ps, j) ==
    /\ pc' = IF j > Len(ps) THEN "done" ELSE "process"
    /\ loc' = FixLoc

\* processPost returns: one counter of stats is incremented
FixFinish(how, counter) ==
    /\ stats' = [stats EXCEPT ![counter] = @ + 1]
    /\ outcome' = [outcome EXCEPT ![i] = how]

\* stats.failed++; stats.errors.push({ slug, error })
FixFail(how, error) ==
    /\ stats' = [stats EXCEPT !.failed = @ + 1,
                              !.errors = Append(@, [slug |-> convexPosts[i].slug,
                                                    error |-> error])]
    /\ outcome' = [outcome EXCEPT ![i] = how]

\* an error reaches the catch of main (of main() in the migration scripts):
\* console.error('Fatal error:', error); process.exit(1)
Fatal ==
    /\ pc' = "exit1"
    /\ errors' = Append(errors, [error |-> "Fatal error"])

\* main: parseWordPressXML
fix_main ==
    /\ pc = "idle"
    /\ featuredImages' = parseFeaturedImages(items)
    /\ pc' = "list"
    /\ UNCHANGED <<storeVars, inputVars, run, isDryRun, wpPosts, i, counts, loc, seenVars,
                   slugVars, adminVars, isForce, convexPosts, stats>>
    /\ UNCHANGED quietVars

\* main: getConvexPosts and the start of the loop
getConvexPosts ==
    /\ pc = "list"
    /\ Awaited("posts.list")
    /\ UNCHANGED calmVars
    /\ \/ /\ Fault
          /\ Fatal
          /\ UNCHANGED <<convexPosts, stats, i, loc, ops, outcome>>
       \/ /\ convexPosts' = posts_list(posts)
          /\ stats' = [stats EXCEPT !.total = Len(convexPosts')]
          /\ i' = 1
          /\ FixEnter(convexPosts', 1)
          /\ ops' = [j \in 1..Len(convexPosts') |-> <<>>]
          /\ outcome' = [j \in 1..Len(convexPosts') |-> "none"]
          /\ UNCHANGED <<faults, errors>>
    /\ UNCHANGED <<storeVars, inputVars, run, isDryRun, wpPosts, counts, baseline,
                   prev, catLog, slugVars, adminVars, isForce, featuredImages>>

\* a mutation of the test: an existing featured image is never kept
keepsFeaturedImageNever(post) == FALSE

\* processPost: if (featuredImage && !isForce)
keepsFeaturedImage(post) == truthy(post.featuredImage) /\ ~isForce

\* processPost: up to the upload
processPost_check ==
    /\ pc = "process"
    /\ LET post == convexPosts[i]
       IN  IF keepsFeaturedImage(post)
              \/ ~truthy(mapGet(featuredImages, post.slug))
           THEN /\ FixFinish("skipped", "skipped")
                /\ i' = i + 1
                /\ FixEnter(convexPosts, i + 1)
           ELSE IF dryRunBranch
           THEN /\ FixFinish("dry", "success")
                /\ i' = i + 1
                /\ FixEnter(convexPosts, i + 1)
           ELSE /\ pc' = "upload"
                /\ UNCHANGED <<stats, outcome, i, loc>>
    /\ UNCHANGED <<storeVars, inputVars, run, isDryRun, wpPosts, counts, ops, errors,
                   baseline, prev, faults, catLog, slugVars, adminVars, isForce, featuredImages,
                   convexPosts>>
    /\ UNCHANGED quietVars

\* a mutation of the retry test: one attempt more
retriesOnceMore(attemptNum) == attemptNum <= RETRY_ATTEMPTS

\* uploadToCloudflare retries after this failed attempt
retries(attemptNum) == attemptNum < RETRY_ATTEMPTS

\* uploadToCloudflare: one attempt
uploadToCloudflare ==
    /\ pc = "upload"
    /\ Call("uploadImageFromUrl")
    /\ Awaited("uploadImageFromUrl")
    /\ UNCHANGED <<cliVars, parseVars, stepwise, issued, themeVars>>
    /\ \/ /\ images' = images + 1
          /\ Uploaded(convexPosts[i].slug, "featured",
                      mapGet(featuredImages, convexPosts[i].slug), images + 1)
          /\ loc' = [loc EXCEPT !.cloudflareUrl = getImageUrl(images + 1)]
          /\ pc' = "update"
          /\ UNCHANGED <<stats, outcome, i>>
       \/ /\ retries(loc.attemptNum)
          /\ Uploaded(convexPosts[i].slug, "featured",
                      mapGet(featuredImages, convexPosts[i].slug), NoId)
          /\ pc' = "retryWait"
          /\ UNCHANGED <<images, stats, outcome, i, loc>>
       \/ /\ ~retries(loc.attemptNum)
          /\ Uploaded(convexPosts[i].slug, "featured",
                      mapGet(featuredImages, convexPosts[i].slug), NoId)
          /\ FixFail("upload failed", "Failed to upload to Cloudflare")
          /\ i' = i + 1
          /\ FixEnter(convexPosts, i + 1)
          /\ UNCHANGED images
    /\ UNCHANGED <<posts, categories, nextId, now, inputVars, run, isDryRun, wpPosts,
                   counts, errors, baseline, prev, faults, catLog, slugVars, adminVars, isForce,
                   featuredImages, convexPosts>>

\* uploadToCloudflare: await sleep(RETRY_DELAY_MS), then the next attempt
uploadToCloudflare_sleep ==
    /\ pc = "retryWait"
    /\ Call("sleep(RETRY_DELAY_MS)")
    /\ loc' = [loc EXCEPT !.attemptNum = @ + 1, !.slept = @ + RETRY_DELAY_MS]
    /\ pc' = "upload"
    /\ UNCHANGED <<storeVars, inputVars, run, isDryRun, wpPosts, i, counts, outcome,
                   errors, baseline, prev, faults, catLog, slugVars, adminVars, fixVars>>
    /\ UNCHANGED quietVars

\* processPost: updatePostFeaturedImage and the counters
processPost_update ==
    /\ pc = "update"
    /\ Call("posts.updateFeaturedImage")
    /\ Awaited("posts.updateFeaturedImage")
    /\ UNCHANGED calmVars
    /\ \/ /\ Fault
          /\ FixFail("update failed", "Failed to update post")
          /\ UNCHANGED <<posts, nextId, now>>
       \/ /\ IF \E p \in posts : p.id = convexPosts[i].id
             THEN /\ posts_updateFeaturedImage(convexPosts[i].id, loc.cloudflareUrl)
                  /\ FixFinish("success", "success")
             ELSE /\ FixFail("update failed", "Failed to update post")
                  /\ UNCHANGED <<posts, nextId, now>>
          /\ UNCHANGED faults
    /\ pc' = "rateWait"
    /\ UNCHANGED <<categories, images, inputVars, run, isDryRun, wpPosts, i, counts, loc,
                   errors, baseline, prev, catLog, slugVars, adminVars, isForce, featuredImages,
                   convexPosts>>

\* processPost: await sleep(RATE_LIMIT_DELAY_MS), then the next post
processPost_sleep ==
    /\ pc = "rateWait"
    /\ Call("sleep(RATE_LIMIT_DELAY_MS)")
    /\ i' = i + 1
    /\ FixEnter(convexPosts, i + 1)
    /\ UNCHANGED <<storeVars, inputVars, run, isDryRun, wpPosts, counts, outcome, errors,
                   baseline, prev, faults, catLog, slugVars, adminVars, fixVars>>
    /\ UNCHANGED quietVars

\* a post as the migration leaves it in the store
MigratedPost(id, slug, featuredImage) ==
    [id |-> id, slug |-> slug, content |-> <<"x">>, featuredImage |-> featuredImage,
     categoryId |-> NoId, status |-> "published", publishedAt |-> id, modifiedAt |-> id]

\* the stores the script may find: up to one post for each of the slugs p
\* and q, with or without a featured image
FixStores ==
    { ({MigratedPost(2, <<"p">>, f) : f \in fp} \cup {MigratedPost(1, <<"q">>, g) : g \in fq}) :
        fp \in {{}, {undefined}, {getImageUrl(1)}},
        fq \in {{}, {undefined}, {getImageUrl(2)}} }

InitFix ==
    /\ posts \in FixStores
    /\ categories = {} /\ nextId = 3 /\ now = 3 /\ images = 2
    /\ items \in Exports
    /\ script = "fix"
    /\ IdleScript /\ NoSlugRun /\ NoAdmin /\ Atomic
    /\ faults = 0
    /\ isDryRun \in BOOLEAN
    /\ isForce \in BOOLEAN
    /\ featuredImages = {} /\ convexPosts = <<>> /\ stats = NoStats

NextFix ==
    \/ fix_main
    \/ getConvexPosts
    \/ processPost_check
    \/ uploadToCloudflare
    \/ uploadToCloudflare_sleep
    \/ processPost_update
    \/ processPost_sleep

SpecFix == InitFix /\ [][NextFix]_vars

\* an export in which the posts p and q both have the attachment 7 as their
\* featured image
PairExport ==
    << Item("attachment", "inherit", 7, <<"i">>, <<>>, <<>>, 0, Url2),
       Item("post", "publish", 1, <<"p">>, <<"x">>, <<>>, 7, undefined),
       Item("post", "publish", 4, <<"q">>, <<"x">>, <<>>, 7, undefined) >>

InitFixPair ==
    /\ posts \in FixStores
    /\ categories = {} /\ nextId = 3 /\ now = 3 /\ images = 2
    /\ items = PairExport
    /\ script = "fix"
    /\ IdleScript /\ NoSlugRun /\ NoAdmin /\ Atomic
    /\ faults = 0
    /\ isDryRun \in BOOLEAN
    /\ isForce \in BOOLEAN
    /\ featuredImages = {} /\ convexPosts = <<>> /\ stats = NoStats

SpecFixPair == InitFixPair /\ [][NextFix]_vars

(***************************************************************************)
(* The slug derivation applied to a label, and again to its own result.    *)
(***************************************************************************)
InitSlug ==
    /\ deriveIn \in Labels
    /\ deriveOut = <<>>
    /\ EmptyStore /\ IdleRun /\ NoAdmin /\ NoFixRun /\ Atomic
    /\ items = <<>> /\ script = "migrate"

Derive ==
    /\ Len(deriveOut) < MaxDerive
    /\ deriveOut' = Append(deriveOut,
                           deriveSlug(IF deriveOut = <<>> THEN deriveIn
                                      ELSE deriveOut[Len(deriveOut)]))
    /\ UNCHANGED <<deriveIn, storeVars, inputVars, runVars, seenVars, adminVars, fixVars>>
    /\ UNCHANGED quietVars

NextSlug == Derive

SpecSlug == InitSlug /\ [][NextSlug]_vars

(***************************************************************************)
(* One invocation of a script from the command line to its exit: the       *)
(* arguments, the export file, the parser item by item, the confirmation,  *)
(* the loop with every remote call issued in one step and returning in     *)
(* another, and the exit code.                                             *)
(***************************************************************************)
\* a mutation of the passes: they end after one item
passDoneEarly(its, k) == k > 1

\* the pass over the items has gone through all of its, being at item k
passDone(its, k) == k > Len(its)

\* main: if (args.length === 0) { ...; process.exit(1) }
\* (the featured-image script takes no path: it goes on to read its file)
main_args ==
    /\ pc = "start"
    /\ pc' = IF hasPath THEN "access" ELSE "exit1"
    /\ UNCHANGED <<storeVars, inputVars, run, isDryRun, wpPosts, i, counts, loc, seenVars,
                   otherVars, quietVars>>

\* main: try { await fs.access(xmlPath) } catch { ...; process.exit(1) }
main_access ==
    /\ pc = "access"
    /\ pc' = IF file = "missing" THEN "exit1" ELSE "read"
    /\ UNCHANGED <<storeVars, inputVars, run, isDryRun, wpPosts, i, counts, loc, seenVars,
                   otherVars, quietVars>>

\* parseWordPressXML: readFile and parseStringPromise; what they throw
\* reaches the catch of main, which exits with 1
parse_read ==
    /\ pc = "read"
    /\ IF file # "ok" THEN Fatal
       ELSE /\ pc' = IF script = "legacy" THEN "secondPass" ELSE "firstPass"
            /\ UNCHANGED errors
    /\ i' = 1
    /\ attachments' = {}
    /\ wpPosts' = <<>>
    /\ featuredImages' = {}
    /\ UNCHANGED <<storeVars, inputVars, run, isDryRun, counts, loc, ops, outcome, baseline,
                   prev, faults, catLog, slugVars, adminVars, isForce, convexPosts, stats,
                   cliVars, stepwise, inFlight, issued, uploadLog, themeVars>>

\* parseWordPressXML: one iteration of the first pass
parse_firstPass ==
    /\ pc = "firstPass"
    /\ IF passDone(items, i)
       THEN /\ pc' = "secondPass"
            /\ i' = 1
            /\ UNCHANGED attachments
       ELSE /\ attachments' =
                   IF /\ items[i].type = "attachment"
                      /\ items[i].id # NoId
                      /\ items[i].attachmentUrl # undefined
                   THEN mapSet(attachments, items[i].id, items[i].attachmentUrl)
                   ELSE attachments
            /\ i' = i + 1
            /\ UNCHANGED pc
    /\ UNCHANGED <<storeVars, inputVars, run, isDryRun, wpPosts, counts, loc, seenVars,
                   otherVars, cliVars, stepwise, inFlight, issued, uploadLog, themeVars>>

\* the post that the second pass of parseWordPressXML pushes for item k, or
\* null when the iteration continues; index is the attachment map
extractPost(its, k, index) ==
    IF its[k].type # "post" THEN null
    ELSE IF its[k].status # "publish" THEN null
    ELSE WordPressPost(k, its[k].slug, its[k].content, its[k].categories, "publish",
                       IF its[k].thumbnailId # NoId
                       THEN mapGet(index, its[k].thumbnailId)
                       ELSE undefined)

\* the featured-image map after the iteration of the second pass for item k
setFeaturedImage(map, its, k, index) ==
    IF /\ its[k].type = "post"
       /\ its[k].slug # <<>>
       /\ its[k].thumbnailId # NoId
       /\ truthy(mapGet(index, its[k].thumbnailId))
    THEN mapSet(map, its[k].slug, mapGet(index, its[k].thumbnailId))
    ELSE map

\* parseWordPressXML: one iteration of the second pass (of the only pass in
\* the older script), and the return
parse_secondPass ==
    /\ pc = "secondPass"
    /\ IF passDone(items, i)
       THEN /\ pc' = IF script = "fix" THEN "list" ELSE "parsed"
            /\ UNCHANGED <<i, wpPosts, featuredImages>>
       ELSE /\ i' = i + 1
            /\ UNCHANGED pc
            /\ IF script = "fix"
               THEN /\ featuredImages' = setFeaturedImage(featuredImages, items, i, attachments)
                    /\ UNCHANGED wpPosts
               ELSE /\ LET post == IF script = "migrate"
                                   THEN extractPost(items, i, attachments)
                                   ELSE parsePostLegacy(items, i)
                       IN  wpPosts' = IF post = null THEN wpPosts ELSE Append(wpPosts, post)
                    /\ UNCHANGED featuredImages
    /\ UNCHANGED <<storeVars, inputVars, run, isDryRun, counts, loc, seenVars, slugVars,
                   adminVars, isForce, convexPosts, stats, quietVars>>

\* a mutation of the prompt: the script never waits for the operator
asksConfirmationNever == FALSE

\* main: if (!isDryRun) { ...; await the Enter key } (the older script
\* has no dry run and always asks)
asksConfirmation == ~(script = "migrate" /\ isDryRun)

\* main: if (posts.length === 0) return; the confirmation is asked for on
\* the live path
main_parsed ==
    /\ pc = "parsed"
    /\ pc' = IF Len(wpPosts) = 0 THEN "exit0"
             ELSE IF asksConfirmation THEN "confirm"
             ELSE "ready"
    /\ UNCHANGED <<storeVars, inputVars, run, isDryRun, wpPosts, i, counts, loc, seenVars,
                   otherVars, quietVars>>

\* main: process.stdin.once('data', resolve): the operator presses Enter
main_confirm ==
    /\ pc = "confirm"
    /\ stdin' = "data"
    /\ pc' = "ready"
    /\ UNCHANGED <<storeVars, inputVars, run, isDryRun, wpPosts, i, counts, loc, seenVars,
                   otherVars, hasPath, file, parseVars, stepwise, inFlight, issued,
                   uploadLog, themeVars>>

\* main: await importPosts(posts), up to its loop
main_importPosts ==
    /\ pc = "ready"
    /\ run' = run + 1
    /\ i' = 1
    /\ counts' = NoCounts
    /\ Enter(wpPosts, 1)
    /\ ops' = [j \in 1..Len(wpPosts) |-> <<>>]
    /\ outcome' = [j \in 1..Len(wpPosts) |-> "none"]
    /\ UNCHANGED <<storeVars, inputVars, isDryRun, wpPosts, errors, baseline, prev, faults,
                   catLog, otherVars, quietVars>>

\* a mutation of the exit: a run in which posts failed exits with 1
returnCodeOfFailures(failed) == IF failed > 0 THEN 1 ELSE 0

\* the exit code when main returns, failed being the number of failed posts
returnCode(failed) == 0

\* the summary is printed and main returns: the process exits
main_exit ==
    /\ pc = "done"
    /\ pc' = IF returnCode(IF script = "fix" THEN stats.failed ELSE counts.fail) = 0
             THEN "exit0" ELSE "exit1"
    /\ UNCHANGED <<storeVars, inputVars, run, isDryRun, wpPosts, i, counts, loc, seenVars,
                   otherVars, quietVars>>

\* process.exit(1) was called, or main returned
exitCode == IF pc = "exit1" THEN 1 ELSE IF pc = "exit0" THEN 0 ELSE -1

\* a mutation of the call sites: the existence query is made anywhere
CallSiteAnywhere == "posts.getBySlug"

\* the remote call that the script makes where it is, or "none"
CallSite ==
    CASE pc = "getBySlug" -> "posts.getBySlug"
      [] pc = "migrateInline" ->
            IF /\ loc.k <= Len(loc.imageUrls)
               /\ script = "legacy" \/ startsWithHttp(loc.imageUrls[loc.k])
            THEN "uploadImageFromUrl" ELSE "none"
      [] pc = "categoryLookup" -> "categories.getBySlug"
      [] pc = "categoryCreate" -> "categories.create"
      [] pc = "featured" ->
            IF script = "legacy" \/ startsWithHttp(wpPosts[i].featuredImageUrl)
            THEN "uploadImageFromUrl" ELSE "none"
      [] pc = "create" -> "posts.create"
      [] pc = "list" -> "posts.list"
      [] pc = "upload" -> "uploadImageFromUrl"
      [] pc = "update" -> "posts.updateFeaturedImage"
      [] OTHER -> "none"

\* the script issues the remote call of its call site and awaits it
request ==
    /\ stepwise
    /\ CallSite # "none"
    /\ ~suspended(inFlight)
    /\ Len(inFlight) < MaxInFlight
    /\ inFlight' = Append(inFlight, CallSite)
    /\ issued' = issued + 1
    /\ UNCHANGED <<storeVars, inputVars, runVars, seenVars, otherVars, cliVars, parseVars,
                   stepwise, uploadLog, themeVars>>

InitMain ==
    /\ script \in {"migrate", "legacy", "fix"}
    /\ items \in Exports
    /\ posts \in FixStores
    /\ categories = {} /\ nextId = 3 /\ now = 3 /\ images = 2
    /\ hasPath \in (IF script = "fix" THEN {TRUE} ELSE BOOLEAN)
    /\ file \in {"missing", "malformed", "ok"}
    /\ stdin = "none"
    /\ isDryRun \in (IF script = "legacy" THEN {FALSE} ELSE BOOLEAN)
    /\ isForce \in (IF script = "fix" THEN BOOLEAN ELSE {FALSE})
    /\ pc = IF script = "fix" THEN "read" ELSE "start"
    /\ run = 0 /\ wpPosts = <<>> /\ i = 1 /\ counts = NoCounts /\ loc = NoLoc
    /\ ops = <<>> /\ outcome = <<>> /\ errors = <<>> /\ baseline = posts
    /\ prev = NoPrev /\ faults = 0 /\ catLog = <<>>
    /\ featuredImages = {} /\ convexPosts = <<>> /\ stats = NoStats
    /\ NoSlugRun /\ NoAdmin /\ NoParse /\ NoCalls /\ NoPage
    /\ stepwise = TRUE

NextMain ==
    \/ main_args
    \/ main_access
    \/ parse_read
    \/ parse_firstPass
    \/ parse_secondPass
    \/ main_parsed
    \/ main_confirm
    \/ main_importPosts
    \/ request
    \/ importPosts_getBySlug
    \/ convertContentToMarkdown_migrate
    \/ convertContentToMarkdown_replace
    \/ getOrCreateCategory_getBySlug
    \/ getOrCreateCategory_create
    \/ importPosts_featuredImage
    \/ importPosts_create
    \/ getConvexPosts
    \/ processPost_check
    \/ uploadToCloudflare
    \/ uploadToCloudflare_sleep
    \/ processPost_update
    \/ processPost_sleep
    \/ main_exit

SpecMain == InitMain /\ [][NextMain]_vars

\* the stores of the runs followed to their end: empty, with the post q, or
\* with the posts p and q, of which p has a featured image
LiveStores ==
    {{},
     {MigratedPost(1, <<"q">>, undefined)},
     {MigratedPost(2, <<"p">>, getImageUrl(1)), MigratedPost(1, <<"q">>, undefined)}}

InitMainLive == InitMain /\ posts \in LiveStores

\* every step that can be taken is taken in the end: the event loop runs the
\* script, every remote call returns or throws, the operator presses Enter
SpecMainLive == InitMainLive /\ [][NextMain]_vars /\ WF_vars(NextMain)

(***************************************************************************)
(* getOrCreateCategory called on its own: with any label, on a dry run or  *)
(* not, against a store that has the category of the label or not.  The    *)
(* label is deriveIn, the value returned is loc.categoryId (NoId for       *)
(* undefined) once pc is "returned"; pc is "threw" when the call throws.   *)
(***************************************************************************)
\* a mutation of the test: no label is taken to be empty
isEmptyLabelNever(categoryName) == FALSE

\* getOrCreateCategory: if (!categoryName)
isEmptyLabel(categoryName) == categoryName = <<>>

\* getOrCreateCategory: the test of the label
category_call ==
    /\ pc = "categoryCall"
    /\ pc' = IF isEmptyLabel(deriveIn) THEN "returned" ELSE "categoryQuery"
    /\ UNCHANGED <<storeVars, inputVars, run, isDryRun, wpPosts, i, counts, loc, seenVars,
                   otherVars, quietVars>>

\* getOrCreateCategory: the lookup, and the dry-run branch of the newer script
category_query ==
    /\ pc = "categoryQuery"
    /\ LET existingCategory == categories_getBySlug(deriveSlug(deriveIn))
       IN  \/ /\ Fault
              /\ pc' = "threw"
              /\ UNCHANGED loc
           \/ /\ IF existingCategory # null
                 THEN /\ loc' = [loc EXCEPT !.categoryId = existingCategory.id]
                      /\ pc' = "returned"
                 ELSE /\ pc' = IF script = "migrate" /\ isDryRun
                               THEN "returned" ELSE "categoryMutation"
                      /\ UNCHANGED loc
              /\ UNCHANGED faults
    /\ UNCHANGED <<storeVars, inputVars, run, isDryRun, wpPosts, i, counts, ops, outcome,
                   errors, baseline, prev, catLog, otherVars, quietVars>>

\* getOrCreateCategory: the create mutation
category_mutation ==
    /\ pc = "categoryMutation"
    /\ LET args == [name |-> deriveIn, slug |-> deriveSlug(deriveIn)]
       IN  \/ /\ Fault
              /\ pc' = "threw"
              /\ UNCHANGED <<categories, nextId, now, loc>>
           \/ /\ IF categories_create_throws(args)
                 THEN /\ pc' = "threw"
                      /\ UNCHANGED <<categories, nextId, now, loc>>
                 ELSE /\ categories_create(args)
                      /\ loc' = [loc EXCEPT !.categoryId = nextId]
                      /\ pc' = "returned"
              /\ UNCHANGED faults
    /\ UNCHANGED <<posts, images, inputVars, run, isDryRun, wpPosts, i, counts, ops, outcome,
                   errors, baseline, prev, catLog, otherVars, quietVars>>

InitCategory ==
    /\ deriveIn \in Labels
    /\ deriveOut = <<>>
    /\ script \in {"migrate", "legacy"}
    /\ isDryRun \in (IF script = "migrate" THEN BOOLEAN ELSE {FALSE})
    /\ posts = {} /\ now = 2 /\ images = 0 /\ nextId = 2
    /\ categories \in {{}, {[id |-> 1, name |-> deriveIn, slug |-> deriveSlug(deriveIn)]}}
    /\ pc = "categoryCall" /\ faults = 0
    /\ run = 0 /\ wpPosts = <<>> /\ i = 1 /\ counts = NoCounts /\ loc = NoLoc
    /\ ops = <<>> /\ outcome = <<>> /\ errors = <<>> /\ baseline = {}
    /\ prev = NoPrev /\ catLog = <<>>
    /\ items = <<>>
    /\ NoAdmin /\ NoFixRun /\ Atomic

NextCategory ==
    \/ category_call
    \/ category_query
    \/ category_mutation

SpecCategory == InitCategory /\ [][NextCategory]_vars

(***************************************************************************)
(* Two invocations of getOrCreateCategory for the same label that          *)
(* interleave: each is a lookup and then a create, and the steps of the    *)
(* two are taken in any order.  A query or a mutation of the store is one  *)
(* transaction, so it is one step.  outcome[k] is where invocation k is;   *)
(* catLog receives what each invocation returns.                           *)
(***************************************************************************)
Callers == {1, 2}

\* invocation k moves on
Moves(k, to) == outcome' = [outcome EXCEPT ![k] = to]

\* getOrCreateCategory of invocation k: the test of the label
race_call(k) ==
    /\ outcome[k] = "categoryCall"
    /\ IF isEmptyLabel(deriveIn)
       THEN Moves(k, "returned") /\ Returned(deriveSlug(deriveIn), FALSE, NoId)
       ELSE Moves(k, "categoryQuery") /\ UNCHANGED catLog
    /\ UNCHANGED <<storeVars, inputVars, runVars, ops, errors, baseline, prev, faults,
                   otherVars, quietVars>>

\* getOrCreateCategory of invocation k: the lookup and the dry-run branch
race_query(k) ==
    /\ outcome[k] = "categoryQuery"
    /\ LET slug == deriveSlug(deriveIn)
           existingCategory == categories_getBySlug(slug)
       IN  \/ /\ Fault
              /\ Moves(k, "threw")
              /\ Returned(slug, FALSE, NoId)
           \/ /\ UNCHANGED faults
              /\ IF existingCategory # null
                 THEN Moves(k, "returned") /\ Returned(slug, FALSE, existingCategory.id)
                 ELSE IF script = "migrate" /\ isDryRun
                      THEN Moves(k, "returned") /\ Returned(slug, FALSE, NoId)
                      ELSE Moves(k, "categoryMutation") /\ UNCHANGED catLog
    /\ UNCHANGED <<storeVars, inputVars, runVars, ops, errors, baseline, prev,
                   otherVars, quietVars>>

\* getOrCreateCategory of invocation k: the create mutation
race_mutation(k) ==
    /\ outcome[k] = "categoryMutation"
    /\ LET args == [name |-> deriveIn, slug |-> deriveSlug(deriveIn)]
       IN  \/ /\ Fault
              /\ Moves(k, "threw")
              /\ Returned(args.slug, TRUE, NoId)
              /\ UNCHANGED <<categories, nextId, now>>
           \/ /\ UNCHANGED faults
              /\ IF categories_create_throws(args)
                 THEN /\ Moves(k, "threw")
                      /\ Returned(args.slug, TRUE, NoId)
                      /\ UNCHANGED <<categories, nextId, now>>
                 ELSE /\ categories_create(args)
                      /\ Moves(k, "returned")
                      /\ Returned(args.slug, TRUE, nextId)
    /\ UNCHANGED <<posts, images, inputVars, runVars, ops, errors, baseline, prev,
                   otherVars, quietVars>>

InitRace ==
    /\ deriveIn \in Labels
    /\ deriveOut = <<>>
    /\ script \in {"migrate", "legacy"}
    /\ isDryRun \in (IF script = "migrate" THEN BOOLEAN ELSE {FALSE})
    /\ posts = {} /\ now = 2 /\ images = 0 /\ nextId = 2
    /\ categories \in {{}, {[id |-> 1, name |-> deriveIn, slug |-> deriveSlug(deriveIn)]}}
    /\ pc = "idle" /\ faults = 0
    /\ run = 0 /\ wpPosts = <<>> /\ i = 1 /\ counts = NoCounts /\ loc = NoLoc
    /\ ops = <<>> /\ errors = <<>> /\ baseline = {}
    /\ outcome = <<"categoryCall", "categoryCall">>
    /\ prev = NoPrev /\ catLog = <<>>
    /\ items = <<>>
    /\ NoAdmin /\ NoFixRun /\ Atomic

NextRace ==
    \E k \in Callers :
        \/ race_call(k)
        \/ race_query(k)
        \/ race_mutation(k)

SpecRace == InitRace /\ [][NextRace]_vars

(***************************************************************************)
(* The store alone: the posts and categories mutations issued in any       *)
(* order from the admin pages, on a store that starts empty.  A mutation   *)
(* that throws changes nothing.  catLog receives the categories created:   *)
(* their ids are the values an argument of type v.id('categories') takes.  *)
(***************************************************************************)
StoreStatuses == {"draft", "published", "scheduled"}

\* the ids of the categories created so far, deleted or not
CategoryIds == {catLog[n].id : n \in 1..Len(catLog)}

\* one more mutation is issued
StoreStep ==
    /\ adminOps < MaxStoreOps
    /\ adminOps' = adminOps + 1
    /\ UNCHANGED <<images, inputVars, runVars, ops, outcome, errors, baseline, prev, faults,
                   slugVars, fixVars, quietVars>>

store_create ==
    /\ \E slug \in AdminSlugs, status \in StoreStatuses, categoryId \in CategoryIds \cup {NoId} :
          LET args == [slug |-> slug, content |-> <<"x">>, featuredImage |-> undefined,
                       categoryId |-> categoryId, status |-> status]
          IN  /\ ~posts_create_throws(args)
              /\ posts_create(args)
    /\ StoreStep
    /\ UNCHANGED <<categories, catLog>>

store_update ==
    /\ \E post \in posts, status \in StoreStatuses, categoryId \in CategoryIds \cup {NoId} :
          LET args == [id |-> post.id, slug |-> post.slug, content |-> post.content,
                       featuredImage |-> post.featuredImage,
                       categoryId |-> categoryId, status |-> status]
          IN  /\ ~posts_update_throws(args)
              /\ posts_update(args)
    /\ StoreStep
    /\ UNCHANGED <<categories, catLog>>

store_deletePost ==
    /\ \E post \in posts : posts_deletePost(post.id)
    /\ StoreStep
    /\ UNCHANGED <<categories, catLog>>

store_publish ==
    /\ \E post \in posts : posts_publish(post.id)
    /\ StoreStep
    /\ UNCHANGED <<categories, catLog>>

store_updateFeaturedImage ==
    /\ \E post \in posts : posts_updateFeaturedImage(post.id, Url1)
    /\ StoreStep
    /\ UNCHANGED <<categories, catLog>>

store_createCategory ==
    /\ LET args == [name |-> CaseStudies, slug |-> deriveSlug(CaseStudies)]
       IN  /\ ~categories_create_throws(args)
           /\ categories_create(args)
           /\ Returned(args.slug, TRUE, nextId)
    /\ StoreStep
    /\ UNCHANGED posts

store_deleteCategory ==
    /\ \E id \in CategoryIds :
          /\ ~categories_deleteCategory_throws(id)
          /\ categories_deleteCategory(id)
    /\ StoreStep
    /\ UNCHANGED <<posts, catLog>>

InitAdmin ==
    /\ posts = {} /\ categories = {} /\ nextId = 1 /\ now = 1 /\ images = 0
    /\ items = <<>> /\ script = "admin"
    /\ isDryRun = FALSE
    /\ IdleScript /\ NoSlugRun /\ NoAdmin /\ NoFixRun /\ Atomic
    /\ faults = 0

NextAdmin ==
    \/ store_create
    \/ store_update
    \/ store_deletePost
    \/ store_publish
    \/ store_updateFeaturedImage
    \/ store_createCategory
    \/ store_deleteCategory

SpecAdmin == InitAdmin /\ [][NextAdmin]_vars

(***************************************************************************)
(* The ThemeToggle components of a page (src/components/ThemeToggle.tsx).  *)
(* The page runs one handler at a time.  dispatchEvent calls the           *)
(* listeners of an event one after the other before anything else runs:    *)
(* each listener is a step, and while an event is being dispatched no      *)
(* other handler starts.  A change of the system colour scheme flips what  *)
(* the media query matches at once and queues a change event, dispatched   *)
(* later.  A state update of a component is in effect when its next        *)
(* handler runs.                                                           *)
(***************************************************************************)
Toggles == 1..MaxToggles

Themes == {"light", "dark"}

other(t) == IF t = "light" THEN "dark" ELSE "light"

\* a mutation of the registration: no component listens
ListenersNone(m) == {}

\* the components whose effects have registered their listeners
Listeners(m) == {t \in Toggles : m[t]}

\* window.dispatchEvent / the dispatch of a change event: the listeners to run
Dispatching(type, detail) ==
    LET to == Listeners(mounted)
    IN  dispatch' = IF to = {} THEN NoEvent
                    ELSE [type |-> type, detail |-> detail, to |-> to]

\* listener t of the event being dispatched has run
Handled(t) ==
    dispatch' = IF dispatch.to = {t} THEN NoEvent
                ELSE [dispatch EXCEPT !.to = @ \ {t}]

\* the script and the store are left alone
PageStep ==
    UNCHANGED <<storeVars, inputVars, runVars, seenVars, otherVars, cliVars, parseVars,
                stepwise, inFlight, issued, uploadLog>>

\* the first effect: setMounted(true), the stored theme or the system's
toggle_mount(t) ==
    /\ dispatch = NoEvent
    /\ ~mounted[t]
    /\ LET systemNow == systemTheme
           initialTheme == IF storedTheme # NoItem THEN storedTheme ELSE systemNow
       IN  /\ mounted' = [mounted EXCEPT ![t] = TRUE]
           /\ theme' = [theme EXCEPT ![t] = initialTheme]
           /\ darkClass' = (initialTheme = "dark")
    /\ UNCHANGED <<storedTheme, systemTheme, changeEvents, dispatch>>
    /\ PageStep

\* the component is removed: its listeners are removed, its state is lost
toggle_unmount(t) ==
    /\ dispatch = NoEvent
    /\ mounted[t]
    /\ mounted' = [mounted EXCEPT ![t] = FALSE]
    /\ theme' = [theme EXCEPT ![t] = "light"]
    /\ UNCHANGED <<storedTheme, systemTheme, darkClass, changeEvents, dispatch>>
    /\ PageStep

\* toggleTheme: a click on the button of component t
toggleTheme(t) ==
    /\ dispatch = NoEvent
    /\ mounted[t]
    /\ LET newTheme == other(theme[t])
       IN  /\ theme' = [theme EXCEPT ![t] = newTheme]
           /\ storedTheme' = newTheme
           /\ darkClass' = (newTheme = "dark")
           /\ Dispatching("themeChange", newTheme)
    /\ UNCHANGED <<mounted, systemTheme, changeEvents>>
    /\ PageStep

\* handleThemeChange of component t
handleThemeChange(t) ==
    /\ dispatch.type = "themeChange"
    /\ t \in dispatch.to
    /\ theme' = [theme EXCEPT ![t] = dispatch.detail]
    /\ darkClass' = (dispatch.detail = "dark")
    /\ Handled(t)
    /\ UNCHANGED <<mounted, storedTheme, systemTheme, changeEvents>>
    /\ PageStep

\* the system colour scheme changes
system_change ==
    /\ Len(changeEvents) < MaxEvents
    /\ systemTheme' = other(systemTheme)
    /\ changeEvents' = Append(changeEvents, other(systemTheme))
    /\ UNCHANGED <<theme, mounted, storedTheme, darkClass, dispatch>>
    /\ PageStep

\* the oldest change event is dispatched to the listeners of the media query
media_dispatch ==
    /\ dispatch = NoEvent
    /\ changeEvents # <<>>
    /\ Dispatching("change", Head(changeEvents))
    /\ changeEvents' = Tail(changeEvents)
    /\ UNCHANGED <<theme, mounted, storedTheme, systemTheme, darkClass>>
    /\ PageStep

\* handleChange of component t
handleChange(t) ==
    /\ dispatch.type = "change"
    /\ t \in dispatch.to
    /\ IF storedTheme = NoItem
       THEN /\ theme' = [theme EXCEPT ![t] = dispatch.detail]
            /\ darkClass' = (dispatch.detail = "dark")
       ELSE UNCHANGED <<theme, darkClass>>
    /\ Handled(t)
    /\ UNCHANGED <<mounted, storedTheme, systemTheme, changeEvents>>
    /\ PageStep

InitTheme ==
    /\ theme = [t \in Toggles |-> "light"]
    /\ mounted = [t \in Toggles |-> FALSE]
    /\ storedTheme \in Themes \cup {NoItem}
    /\ systemTheme \in Themes
    /\ darkClass = FALSE
    /\ changeEvents = <<>>
    /\ dispatch = NoEvent
    /\ posts = {} /\ categories = {} /\ nextId = 1 /\ now = 1 /\ images = 0
    /\ items = <<>> /\ script = "page"
    /\ isDryRun = FALSE
    /\ IdleScript /\ NoSlugRun /\ NoAdmin /\ NoFixRun
    /\ stepwise = FALSE /\ NoCli /\ NoParse /\ NoCalls
    /\ faults = 0

NextTheme ==
    \/ \E t \in Toggles :
          \/ toggle_mount(t)
          \/ toggle_unmount(t)
          \/ toggleTheme(t)
          \/ handleThemeChange(t)
          \/ handleChange(t)
    \/ system_change
    \/ media_dispatch

SpecTheme == InitTheme /\ [][NextTheme]_vars

(***************************************************************************)
(* The properties.                                                         *)
(***************************************************************************)
\* the number of positions of the sequence s that hold x
Count(s, x) == Cardinality({k \in 1..Len(s) : s[k] = x})

\* the slugs of a set of documents
SlugsOf(docs) == {d.slug : d \in docs}

\* the posts of the store that have the slug
PostsWithSlug(slug) == {p \in posts : p.slug = slug}

\* the importer is inside an iteration, past the existence check
PastLookup == {"migrateInline", "categoryLookup", "categoryCreate", "featured", "create"}

\* C1: when the existence check of the importer finds a post with the slug,
\* the iteration makes no other call (no upload, no category call, no
\* posts.create), increments only the skip counter and leaves the store as
\* it is; an iteration goes past the check only for a slug that has no post.
C1_SkipExisting ==
    script = "migrate" =>
        /\ \A j \in 1..Len(outcome) :
              /\ outcome[j] = "skipped" =>
                    /\ ops[j] = <<"posts.getBySlug">>
                    /\ wpPosts[j].slug \in SlugsOf(posts)
              /\ wpPosts[j].slug \in SlugsOf(baseline) =>
                    \/ outcome[j] = "skipped"
                    \/ outcome[j] = "none" /\ ops[j] = <<>>
                    \/ outcome[j] = "failed" /\ ops[j] = <<"posts.getBySlug">>
        /\ pc \in PastLookup => wpPosts[i].slug \notin SlugsOf(posts)
        /\ counts.skip = Count(outcome, "skipped")
        /\ counts.success = Count(outcome, "created") + Count(outcome, "dry")
        /\ counts.fail = Count(outcome, "failed")
        /\ baseline \subseteq posts

\* a run has skipped a post that an earlier run created, and has ended
C1_Witness ==
    /\ script = "migrate" /\ pc = "done"
    /\ \E j \in 1..Len(outcome) :
          /\ outcome[j] = "skipped"
          /\ wpPosts[j].slug \in SlugsOf(baseline)
          /\ counts.skip >= 1

\* C2: no two posts of the store have the same slug, whatever the importer
\* and the administrator do; and the importer calls posts.create in an
\* iteration only after the existence check of that iteration.
C2_SlugUnique ==
    /\ \A p \in posts, q \in posts : p.slug = q.slug => p = q
    /\ \A j \in 1..Len(ops) :
          \A k \in 1..Len(ops[j]) :
              ops[j][k] = "posts.create" => k > 1 /\ ops[j][1] = "posts.getBySlug"
    /\ pc \in PastLookup => ops[i] # <<>> /\ ops[i][1] = "posts.getBySlug"

\* the administrator created a post with the slug between the existence
\* check and the posts.create of the importer, which was rejected
C2_Witness ==
    /\ \E k \in 1..Len(errors) : errors[k].error = "Post already exists"
    /\ adminOps = 1
    /\ \E p \in posts : p.slug = wpPosts[1].slug /\ p.content = <<"x">>

\* an iteration of a run does not create a post that the store had when the
\* run started
NotCreatedAgain(j) ==
    wpPosts[j].slug \in SlugsOf(baseline) =>
        \/ outcome[j] = "none" /\ (script = "migrate" => ops[j] = <<>>)
        \/ outcome[j] = "skipped" /\ script = "migrate"
        \/ outcome[j] = "failed" /\ script = "migrate" /\ ops[j] = <<"posts.getBySlug">>
        \/ outcome[j] = "failed" /\ script = "legacy"

C5_FailureRecordedBySlug ==
    (script = "migrate" /\ pc # "killed") =>
        /\ counts.fail = Count(outcome, "failed")
        /\ \A j \in 1..Len(outcome) :
              outcome[j] = "failed" =>
                  /\ i > j
                  /\ \E k \in 1..Len(errors) :
                        /\ "slug" \in DOMAIN errors[k]
                        /\ errors[k].slug = wpPosts[j].slug

\* C6: an inline image whose upload failed is counted and its URL is still
\* in the converted content with which posts.create is called.
C6_FailedUrlKept ==
    (script = "migrate" /\ pc \in {"categoryLookup", "categoryCreate", "featured", "create"}) =>
        \A url \in loc.failedUrls :
            /\ loc.imagesFailed >= 1
            /\ occursIn(url, loc.content)

\* C8: the parser hands on only the items whose type is post and whose
\* status is publish.
C8_OnlyPublishedPosts ==
    \A j \in 1..Len(wpPosts) :
        /\ items[wpPosts[j].src].type = "post"
        /\ items[wpPosts[j].src].status = "publish"

\* the calls of getOrCreateCategory for the slug that issued categories.create
CreatesFor(slug) ==
    {a \in 1..Len(catLog) : catLog[a].slug = slug /\ catLog[a].created}

\* C9 as the specification words it: categories.create is issued at most
\* once for a derived slug, every call returns the same reference, and no
\* two categories have the same slug.
C9_Original ==
    /\ \A a \in 1..Len(catLog) : Cardinality(CreatesFor(catLog[a].slug)) <= 1
    /\ \A a \in 1..Len(catLog), b \in 1..Len(catLog) :
          (catLog[a].slug = catLog[b].slug /\ catLog[a].id # NoId /\ catLog[b].id # NoId)
              => catLog[a].id = catLog[b].id
    /\ \A c \in categories, d \in categories : c.slug = d.slug => c = d

\* C9: for the posts that share a category label, at most one
\* categories.create for the derived slug succeeds, another one is issued
\* only after every earlier one threw, every call that returns gives the
\* reference of the one category with that slug, and no two categories have
\* the same slug.
C9_LookupOrCreate ==
    /\ \A a \in 1..Len(catLog), b \in 1..Len(catLog) :
          /\ (a < b /\ catLog[a].slug = catLog[b].slug /\ catLog[a].created /\ catLog[b].created)
                => catLog[a].id = NoId
          /\ (catLog[a].slug = catLog[b].slug /\ catLog[a].id # NoId /\ catLog[b].id # NoId)
                => catLog[a].id = catLog[b].id
    /\ \A a \in 1..Len(catLog) :
          catLog[a].id # NoId =>
              \E c \in categories : c.id = catLog[a].id /\ c.slug = catLog[a].slug
    /\ \A c \in categories, d \in categories : c.slug = d.slug => c = d

\* a post created the category of its label and a later post with the same
\* label was given the same category without another categories.create
C9_Witness ==
    \E a \in 1..Len(catLog), b \in 1..Len(catLog) :
        /\ a < b
        /\ catLog[a].slug = catLog[b].slug
        /\ catLog[a].created /\ catLog[a].id # NoId
        /\ ~catLog[b].created /\ catLog[b].id = catLog[a].id
        /\ Cardinality(categories) = 1

\* the upload calls of iteration j of the featured-image script
Uploads(j) == Count(ops[j], "uploadImageFromUrl")

\* C7: uploadToCloudflare makes at most RETRY_ATTEMPTS attempts; when all of
\* them fail it has made exactly RETRY_ATTEMPTS with RETRY_DELAY_MS waited
\* between two attempts and none after the last, the post is counted failed
\* with an error under its slug, its featured image is left as it was and
\* the script goes on to the next post; an attempt that succeeds is the last
\* one and is followed by the update of the post.
C7_UploadRetries ==
    /\ stats.failed = Count(outcome, "upload failed") + Count(outcome, "update failed")
    /\ stats.failed = Len(stats.errors)
    /\ pc = "update" =>
          /\ Uploads(i) = loc.attemptNum
          /\ ops[i][Len(ops[i])] = "uploadImageFromUrl"
    /\ \A j \in 1..Len(outcome) :
          /\ Uploads(j) <= RETRY_ATTEMPTS
          /\ Count(ops[j], "sleep(RETRY_DELAY_MS)") \in {Uploads(j), Uploads(j) - 1} \cup {0}
          /\ outcome[j] = "upload failed" =>
                /\ ops[j] = <<"uploadImageFromUrl", "sleep(RETRY_DELAY_MS)",
                              "uploadImageFromUrl", "sleep(RETRY_DELAY_MS)",
                              "uploadImageFromUrl">>
                /\ \E k \in 1..Len(stats.errors) : stats.errors[k].slug = convexPosts[j].slug
                /\ convexPosts[j] \in posts
                /\ i > j
          /\ outcome[j] \in {"success", "update failed"} =>
                /\ Uploads(j) >= 1
                /\ Len(ops[j]) >= 2 * Uploads(j)
                /\ ops[j][2 * Uploads(j) - 1] = "uploadImageFromUrl"
                /\ ops[j][2 * Uploads(j)] = "posts.updateFeaturedImage"

\* every attempt for a post failed and the script has processed the post
\* that follows it
C7_Witness ==
    \E j \in 1..Len(outcome) :
        /\ outcome[j] = "upload failed"
        /\ j < Len(outcome)
        /\ outcome[j + 1] # "none"
        /\ pc = "done"


\* C10: slug derivation is idempotent: deriving a slug from the derived slug
\* of any label yields the same string.
C10_SlugIdempotent ==
    \A k \in 2..Len(deriveOut) : deriveOut[k] = deriveOut[1]

\* a label with a run of several non-alphanumeric characters, upper case and
\* a leading hyphen has been derived twice
C10_Witness ==
    /\ Len(deriveOut) >= 2
    /\ deriveIn = <<"-", "A", " ", "-">>
    /\ deriveOut[1] = <<"a">>

\* the posts of the running script that have reached their outcome, as its
\* counters tell
Completed ==
    IF script = "fix" THEN stats.success + stats.skipped + stats.failed
    ELSE counts.success + counts.skip + counts.fail

\* C11: the pipeline is strictly sequential: at most one remote call is in
\* flight at any time; it is the listing of the posts before the loop, or
\* the call of the post the loop is at, in flight only when every post before
\* that one has reached its outcome and has been counted.
C11_Sequential ==
    /\ Len(inFlight) <= 1
    /\ inFlight # <<>> => inFlight[1] = CallSite
    /\ inFlight # <<>> /\ pc # "list" =>
          /\ \A k \in 1..(i - 1) : outcome[k] # "none"
          /\ i <= Len(outcome) /\ outcome[i] = "none"
          /\ Completed = i - 1

\* a remote call of the second post is in flight after the first post was
\* created
C11_Witness ==
    /\ inFlight = <<"posts.create">>
    /\ i = 2
    /\ outcome[1] = "created"

\* the script is past the first pass of its parser
PastFirstPass ==
    /\ script \in {"migrate", "fix"}
    /\ pc \notin {"start", "access", "read", "firstPass"}
    /\ pc = "exit1" => faults > 0

\* the script is past its parser
PastParser == PastFirstPass /\ pc # "secondPass"

\* the attachment ids of the export
AttachmentIds == {items[k].id : k \in 1..Len(items)}

\* C12: the attachment index is complete before any post is resolved against
\* it and is not modified afterwards: from the end of the first pass on it
\* holds every attachment of the export, wherever the attachment stands, so
\* that the featured image of every post is resolved against all of them.
C12_IndexComplete ==
    /\ PastFirstPass =>
          /\ \A id \in AttachmentIds : mapGet(attachments, id) = attachmentUrlOf(items, id)
          /\ \A e \in attachments : e[1] \in AttachmentIds
    /\ script = "migrate" /\ pc \notin {"start", "access", "read"} =>
          \A j \in 1..Len(wpPosts) :
              wpPosts[j].featuredImageUrl =
                  IF items[wpPosts[j].src].thumbnailId # NoId
                  THEN attachmentUrlOf(items, items[wpPosts[j].src].thumbnailId)
                  ELSE undefined
    /\ script = "migrate" /\ PastParser => wpPosts = parseWordPressXML(items)
    /\ script = "fix" /\ PastParser => featuredImages = parseFeaturedImages(items)

\* a post is resolved to the URL of an attachment that stands after it in
\* the export
C12_Witness ==
    /\ script = "migrate"
    /\ pc = "parsed"
    /\ \E j \in 1..Len(wpPosts) : \E k \in 1..Len(items) :
          /\ items[k].type = "attachment"
          /\ k > wpPosts[j].src
          /\ items[k].id = items[wpPosts[j].src].thumbnailId
          /\ wpPosts[j].featuredImageUrl = items[k].attachmentUrl

\* the remote calls that change the content store or the image store
Writes == {"posts.create", "categories.create", "posts.updateFeaturedImage",
           "uploadImageFromUrl"}

\* C13: with --dry-run no run of the migration script or of the featured-image
\* script changes remote state: for any export and any store it never issues
\* posts.create, categories.create, posts.updateFeaturedImage or an image
\* upload, and the stores stay as they were found.
C13_DryRunWritesNothing ==
    isDryRun =>
        /\ posts = baseline
        /\ categories = {}
        /\ images = 2
        /\ uploadLog = <<>>
        /\ \A n \in 1..Len(inFlight) : inFlight[n] \notin Writes
        /\ \A j \in 1..Len(ops) : \A n \in 1..Len(ops[j]) : ops[j][n] \notin Writes

\* a dry run of the migration script has ended after two posts that are not in
\* the store, one of them with a category and a featured image
C13_Witness ==
    /\ isDryRun
    /\ script = "migrate"
    /\ pc = "exit0"
    /\ Len(outcome) = 2
    /\ \A j \in 1..2 : outcome[j] = "dry"
    /\ \E j \in 1..2 : /\ truthy(wpPosts[j].featuredImageUrl)
                       /\ Len(wpPosts[j].categories) > 0

\* the fetched posts that processPost has counted as skipped
SkippedPosts == {j \in 1..Len(outcome) : outcome[j] = "skipped"}

\* C14: in the featured-image script overwriting a featured image is opt-in:
\* without --force a post that has a featured image is counted as skipped,
\* no upload and no updateFeaturedImage is issued for it and it stays in the
\* store as it was; with --force such a post, when the export has an image
\* for it and the run is live, is uploaded again.
C14_ForceOptIn ==
    /\ stats.skipped = Cardinality(SkippedPosts)
    /\ \A j \in 1..Len(convexPosts) :
          truthy(convexPosts[j].featuredImage) =>
              /\ ~isForce =>
                    /\ outcome[j] \in {"none", "skipped"}
                    /\ j < i => outcome[j] = "skipped"
                    /\ ops[j] = <<>>
                    /\ convexPosts[j] \in posts
              /\ (/\ isForce
                  /\ ~isDryRun
                  /\ truthy(mapGet(featuredImages, convexPosts[j].slug))
                  /\ j < i) => Uploads(j) >= 1

\* without --force a live run has ended in which a post that has a featured
\* image, and an image in the export, was skipped
C14_Witness ==
    /\ script = "fix" /\ ~isForce /\ ~isDryRun /\ pc = "done"
    /\ \E j \in 1..Len(convexPosts) :
          /\ truthy(convexPosts[j].featuredImage)
          /\ truthy(mapGet(featuredImages, convexPosts[j].slug))
          /\ outcome[j] = "skipped"

\* an error has reached the catch of main
FatalError == \E n \in 1..Len(errors) : errors[n].error = "Fatal error"

\* the path of the export is not given, or no file is there
InputError == (script # "fix" /\ ~hasPath) \/ file = "missing"

\* C15: the process exits with 1 exactly when the path argument is missing,
\* the file does not exist or a fatal error (such as a parse error) reaches
\* the catch of main, and with 0 otherwise, also after a run in which posts
\* failed: an input error stops the script before its loop, a fatal error
\* ends it at once, and only a readable, well-formed export leads to 0.
C15_ExitCode ==
    /\ exitCode = 1 => InputError \/ FatalError
    /\ exitCode = 0 => ~InputError /\ ~FatalError /\ file = "ok"
    /\ FatalError => exitCode = 1
    /\ InputError => pc \in {"start", "access", "read", "exit1"}
    /\ file = "malformed" => pc \in {"start", "access", "read", "exit1"}

\* a run of the migration script in which every post failed has exited with 0
C15_Witness ==
    /\ script = "migrate"
    /\ exitCode = 0
    /\ Len(wpPosts) >= 1
    /\ counts.fail = Len(wpPosts)

\* no remote call has been issued and the stores are as they were found
NothingRemote ==
    /\ issued = 0
    /\ inFlight = <<>>
    /\ uploadLog = <<>>
    /\ \A j \in 1..Len(ops) : ops[j] = <<>>
    /\ posts = baseline /\ categories = {} /\ images = 2

\* C16: an input error (no path argument, or a path at which no file is)
\* aborts the run before any remote call: no query, no mutation and no image
\* upload is issued on such a run.
C16_InputErrorBeforeRemote == InputError => NothingRemote

\* the older migration script has exited with 1 because no file is at the path
C16_Witness ==
    /\ script = "legacy"
    /\ hasPath /\ file = "missing"
    /\ exitCode = 1

\* C17: on the live path of the migration script no remote call, mutation or
\* image upload is issued until the operator's confirmation has been received;
\* as long as it has not arrived the remote state is as it was found.
C17_ConfirmationGate ==
    script \in {"migrate", "legacy"} /\ ~isDryRun /\ stdin = "none" => NothingRemote

\* the migration script has parsed two posts on the live path and waits for
\* the operator
C17_Witness ==
    /\ script = "migrate" /\ ~isDryRun
    /\ pc = "confirm"
    /\ stdin = "none"
    /\ Len(wpPosts) = 2

\* the URL under which the export holds the featured image of the parsed post
\* j: that of the attachment its thumbnail meta names, or undefined
AttachmentOf(j) ==
    IF items[wpPosts[j].src].thumbnailId # NoId
    THEN attachmentUrlOf(items, items[wpPosts[j].src].thumbnailId)
    ELSE undefined

\* C18: for a post whose thumbnail meta names an attachment of the export the
\* featured-image source handed to the upload is the URL of that attachment,
\* and when the upload succeeds the featured image of the created post is the
\* delivery URL of the image id returned; a post without thumbnail meta, or
\* naming an unknown attachment, is created without a featured image.
C18_FeaturedImageFromIndex ==
    script \in {"migrate", "legacy"} =>
        /\ \A n \in 1..Len(uploadLog) :
              uploadLog[n].use = "featured" =>
                  \E j \in 1..Len(wpPosts) :
                      /\ wpPosts[j].slug = uploadLog[n].slug
                      /\ truthy(AttachmentOf(j))
                      /\ uploadLog[n].url = AttachmentOf(j)
        /\ \A p \in posts \ baseline :
              \/ /\ p.featuredImage = undefined
                 /\ \A n \in 1..Len(uploadLog) :
                       uploadLog[n].use = "featured" /\ uploadLog[n].slug = p.slug
                           => uploadLog[n].id = NoId
              \/ \E n \in 1..Len(uploadLog) :
                    /\ uploadLog[n].use = "featured"
                    /\ uploadLog[n].slug = p.slug
                    /\ uploadLog[n].id # NoId
                    /\ p.featuredImage = getImageUrl(uploadLog[n].id)
        /\ \A j \in 1..Len(wpPosts) :
              /\ ~truthy(AttachmentOf(j))
              /\ \A k \in 1..Len(wpPosts) : wpPosts[k].slug = wpPosts[j].slug => k = j
              => \A p \in posts \ baseline :
                    p.slug = wpPosts[j].slug => p.featuredImage = undefined

\* getOrCreateCategory has returned a reference: the id of the category of
\* the store that has the slug of the label
ReturnsReference ==
    \E c \in categories : c.id = loc.categoryId /\ c.slug = deriveSlug(deriveIn)

PostRank(at) ==
    CASE at = "getBySlug" -> 1
      [] at = "migrateInline" -> 2
      [] at = "categoryLookup" -> 3
      [] at = "categoryCreate" -> 4
      [] at = "featured" -> 5
      [] at = "create" -> 6
      [] OTHER -> 0

\* a step of the newer migration script within its loop keeps to the order of
\* the states, and the step that ends a post gives it one of the outcomes
\* ends, counts it once and leaves the outcomes of the earlier posts alone
KeepsOrder(ends) ==
    script = "migrate" /\ PostRank(pc) > 0 =>
        \/ /\ i' = i
           /\ pc' = pc \/ PostRank(pc') > PostRank(pc)
           /\ outcome' = outcome
           /\ Completed' = Completed
        \/ /\ i' = i + 1
           /\ pc' \in {"getBySlug", "done"}
           /\ outcome[i] = "none"
           /\ outcome'[i] \in ends
           /\ outcome'[i] \in {"skipped", "dry"} => pc = "getBySlug"
           /\ outcome'[i] = "created" => pc = "create"
           /\ \A j \in 1..Len(outcome) : j # i => outcome'[j] = outcome[j]
           /\ Completed' = Completed + 1

\* the run has ended; the exit of a migration that got to its loop (run > 0)
\* is the one that follows the summary
Exited == pc \in {"exit0", "exit1"}

AttemptsFor(url) ==
    Cardinality({n \in 1..Len(uploadLog) :
                    /\ uploadLog[n].slug = wpPosts[i].slug
                    /\ uploadLog[n].url = url})

\* C21: every image-upload failure, for an inline image as for a featured
\* image, is retried a bounded number of times with a fixed delay before it
\* is treated as a non-fatal failure: no image is given up after a single
\* failed upload attempt.
C21_UploadRetried ==
    /\ script = "migrate" /\ pc \in {"migrateInline", "categoryLookup", "categoryCreate",
                                    "featured", "create"} =>
          /\ \A url \in loc.failedUrls :
                startsWithHttp(url) =>
                    /\ AttemptsFor(url) >= 2
                    /\ AttemptsFor(url) <= RETRY_ATTEMPTS
          /\ loc.featuredImageFailed /\ startsWithHttp(wpPosts[i].featuredImageUrl) =>
                AttemptsFor(wpPosts[i].featuredImageUrl) >= 2
    /\ script = "fix" =>
          \A j \in 1..Len(outcome) :
              outcome[j] = "upload failed" => Uploads(j) = RETRY_ATTEMPTS

\* the distinct source URLs found in the content of the current post
DistinctUrls == {loc.imageUrls[n] : n \in 1..Len(loc.imageUrls)}

\* C22: convertContentToMarkdown invokes the image upload once per distinct
\* source URL of the content of a post: a URL that occurs in several image
\* references of the post is uploaded at most once, and the image-failure
\* count is at most the number of distinct URLs.
C22_OncePerDistinctUrl ==
    script \in {"migrate", "legacy"} /\ pc = "migrateInline" =>
        /\ Count(ops[i], "uploadImageFromUrl") <= Cardinality(DistinctUrls)
        /\ loc.imagesFailed <= Cardinality(DistinctUrls)

\* C23: after the substitution step of convertContentToMarkdown, whatever
\* characters the URLs contain, the step has not thrown and for every old URL
\* with a recorded mapping no occurrence of the old URL is left in the content
\* and its new URL stands in the content.
C23_SubstitutionComplete ==
    script \in {"migrate", "legacy"} =>
        /\ \A n \in 1..Len(errors) : errors[n].error # "Invalid regular expression"
        /\ pc \in {"categoryLookup", "categoryCreate", "featured", "create"} =>
              \A e \in 1..Len(loc.imageMapping) :
                  /\ ~occursIn(loc.imageMapping[e][1], loc.updatedHtml)
                  /\ occursIn(loc.imageMapping[e][2], loc.updatedHtml)

\* C24: in the featured-image script the rate-limit delay separates the
\* iterations: after a post for which an upload was attempted, whether the
\* upload or the update succeeded or failed, RATE_LIMIT_DELAY_MS elapses
\* before the first remote call of the next post.
C24_RateLimitDelay ==
    script = "fix" =>
        \A j \in 1..(Len(ops) - 1) :
            Uploads(j) >= 1 /\ ops[j + 1] # <<>> =>
                ops[j][Len(ops[j])] = "sleep(RATE_LIMIT_DELAY_MS)"

\* the invocations of getOrCreateCategory that issued categories.create
IssuedCreate == {n \in 1..Len(catLog) : catLog[n].created}

\* C25: when two invocations of getOrCreateCategory for the same label that
\* is not in the store interleave, so that both lookups find nothing and
\* both issue the create, the store never holds more than one category with
\* the slug, one invocation returns the reference of the category created,
\* and the other ends with the error thrown by categories.create.
C25_RaceLoserThrows ==
    LET slug == deriveSlug(deriveIn)
        made == {c \in categories : c.slug = slug}
    IN  /\ Cardinality(made) <= 1
        /\ Cardinality(IssuedCreate) = 2 /\ faults = 0 =>
              /\ {outcome[1], outcome[2]} = {"returned", "threw"}
              /\ Cardinality(made) = 1
              /\ \E n \in IssuedCreate :
                    /\ \A c \in made : catLog[n].id = c.id
                    /\ \A m \in IssuedCreate \ {n} : catLog[m].id = NoId

C25_Witness ==
    /\ Cardinality(IssuedCreate) = 2 /\ faults = 0
    /\ outcome = <<"threw", "returned">>
    /\ Cardinality({c \in categories : c.slug = deriveSlug(deriveIn)}) = 1

\* the posts whose iteration has ended
Processed == {j \in 1..Len(outcome) : outcome[j] # "none"}

\* C26: counter accounting: every processed post increments exactly one
\* outcome counter.  In the migration scripts successCount + skipCount +
\* failCount is the number of iterations of importPosts completed; when the
\* featured-image script prints its summary, stats.success + stats.skipped +
\* stats.failed = stats.total, and stats.errors always has exactly
\* stats.failed entries.
C26_CounterAccounting ==
    /\ script \in {"migrate", "legacy"} /\ run > 0 =>
          /\ Completed = i - 1
          /\ Completed = Cardinality(Processed)
    /\ script = "fix" =>
          /\ Len(stats.errors) = stats.failed
          /\ pc # "list" => Completed = Cardinality(Processed)
          /\ pc \in {"done", "exit0"} =>
                /\ Completed = stats.total
                /\ stats.total = Len(convexPosts)

\* a run of the migration script has ended with a post imported and a post
\* failed
C26_Witness ==
    /\ script = "migrate" /\ pc = "exit0"
    /\ counts.success = 1 /\ counts.fail = 1 /\ Completed = 2

\* C27: the publishedAt timestamp of a post is write-once: once it is set, no
\* mutation of the post changes it, whether posts.update (to draft, to
\* published again), posts.publish or posts.updateFeaturedImage.
C27_PublishedAtWriteOnce ==
    [][\A p \in posts :
          p.publishedAt # NoId =>
              \A q \in posts' : q.id = p.id => q.publishedAt = p.publishedAt]_vars

\* a post that was published has been moved back to draft by posts.update,
\* and further mutations may follow
C27_Witness ==
    /\ adminOps < MaxStoreOps
    /\ \E p \in posts :
          /\ p.status = "draft"
          /\ p.publishedAt # NoId
          /\ p.modifiedAt > p.publishedAt

\* C28: in every state reachable through the posts mutations, every post
\* whose status is published has publishedAt set.
C28_PublishedHasTimestamp ==
    \A p \in posts : p.status = "published" => p.publishedAt # NoId

\* the only post ever created was not created published, and was published
\* by a later mutation
C28_Witness ==
    /\ nextId = 2
    /\ \E p \in posts : p.status = "published" /\ p.publishedAt >= 2

\* C29: category referential integrity: after any sequence of post and
\* category mutations, the categoryId of every post refers to a category
\* that exists.
C29_ReferentialIntegrity ==
    \A p \in posts :
        p.categoryId # NoId => \E c \in categories : c.id = p.categoryId

\* every event has been handled
Settled == dispatch = NoEvent /\ changeEvents = <<>>

\* the components that are mounted
MountedToggles == {t \in Toggles : mounted[t]}

\* C30: the theme stays consistent across the mounted ThemeToggle
\* components: whatever the clicks and the changes of the system colour
\* scheme, once every event is handled all mounted components hold the same
\* theme and the document has the class dark exactly when that theme is
\* dark; and the handler of a system change leaves the theme and the class
\* alone when a theme is stored.
C30_ThemeConsistent ==
    /\ [](Settled =>
             \A t \in MountedToggles :
                 /\ \A u \in MountedToggles : theme[u] = theme[t]
                 /\ darkClass <=> theme[t] = "dark")
    /\ [][dispatch.type = "change" /\ storedTheme # NoItem =>
             UNCHANGED <<theme, darkClass, storedTheme>>]_vars

\* both components are mounted, a click on one has stored a theme that the
\* other has not been told yet, and a change of the system colour scheme
\* waits to be dispatched
C30_Witness ==
    /\ MountedToggles = Toggles
    /\ dispatch.type = "themeChange"
    /\ \E t \in Toggles : dispatch.to = {t} /\ theme[t] # dispatch.detail
    /\ storedTheme = dispatch.detail
    /\ changeEvents # <<>>
====
